---- MODULE Spec2Model ----
(***************************************************************************)
(* Step-execution engine of XDL: the top-level executor                    *)
(* (AbstractXDLExecutor.execute), composite steps (AbstractStep.execute),  *)
(* leaf steps (AbstractBaseStep.execute_step), the requirement context     *)
(* manager (Step.await_requirements) and the named locks of the platform   *)
(* controller, run on a single asyncio event loop.                         *)
(*                                                                         *)
(* The event loop is modelled as a FIFO queue `ready` of handles.  One     *)
(* handle is run at a time; a task handle makes `cur` the running task,    *)
(* which then executes its code section by section until it suspends on a  *)
(* future or finishes.  Completion of a leaf action, expiry of a poll      *)
(* timer and finalisation of an abandoned generator are events of the      *)
(* environment; they append a handle to `ready` while no task is running.  *)
(***************************************************************************)
EXTENDS Integers, Sequences, FiniteSets, TLC

\* ---------------------------------------------------------------- bounds
NumSteps == 4    \* steps in the tree: the procedure's steps 1..ntop, of which
                 \* step 1 is composite, and its children ntop+1..NumSteps

NumChildren == 2 \* children of the Repeat that is followed on its own
MaxBatches == 3  \* batches of an open-ended Repeat that are followed
MaxRepeats == 2  \* largest value of the property `repeats`
MaxMatches == 2  \* most matches of the loop variables
MaxBlockLen == 2 \* longest block a dynamic step's lifecycle methods return
MaxContinue == 2 \* calls of on_continue that are followed
MaxRuns == 1     \* calls of a dynamic step's execute that are followed
NumAsync == 2    \* Async steps that are followed on their own
MaxAsyncChildren == 2 \* most children of an Async step
MaxAsyncRuns == 2 \* calls of execute of Async steps that are followed
MaxAwaits == 2   \* calls of Await.execute that are followed
XNumSteps == 2   \* steps of the procedure of the XDL object followed on its own
MaxCalls == 3    \* calls made on that XDL object and its executor
MaxExecs == 2    \* executions of the one scheduler that is run repeatedly
SNumKids == 2    \* children of that scheduler
NumProps == 2    \* property names of the composite step whose child list is read
MaxPropOps == 4  \* property writes and reads of steps that are followed
MaxSpecs == 3    \* predicates declared for the loop variable that is resolved
NumItems == 2    \* reagents and components of the context it is matched against

\* ------------------------------------------------------------- constants
Exec == 0        \* task of AbstractXDLExecutor.execute
NoParent == 0    \* Step.parent is None
NoQueue == "None"
TagOrder == <<"a", "b", "c">>
Queues == {NoQueue} \cup {TagOrder[i] : i \in DOMAIN TagOrder}
Locks == {"L1", "L2"}
Comp == 1

\* the lock sets a leaf step may declare
LockSets == {{}, {"L1"}, {"L1", "L2"}}
Steps == 1..NumSteps
Leaves == Steps \ {Comp}
Tasks == Steps \cup {Exec}

VARIABLES
  ntop,        \* number of steps of the procedure (len(XDL.steps))
  kind,        \* kind[s]: "leaf", "comp" (AbstractStep) or "repeat" (Repeat)
  queue,       \* queue[s]: Step.queue
  leafLocks,   \* leafLocks[s]: what locks() of leaf s returns
  ready,       \* the loop's FIFO of handles
  cur,         \* <<t>> while task t is running, <<>> between handles
  pc,          \* pc[t]: where task t is
  res,         \* res[t]: outcome of the finished task t
  susp,        \* susp[t]: t waits on a pending future (no wakeup queued)
  cancelReq,   \* cancelReq[t]: Task.cancel() was called and not delivered
  inbox,       \* inbox[t]: the `done` queue of t's current as_completed
  seen,        \* seen[t]: results t consumed from its current as_completed
  cbs,         \* cbs[t]: done-callbacks on task t, in registration order
  deps,        \* deps[s]: dependency tasks handed to execute_step
  taskGroups,  \* taskGroups[p]: task-group registry of scheduler p
  locked,      \* locked[l]: asyncio.Lock._locked
  lockWaiters, \* lockWaiters[l]: asyncio.Lock._waiters (owners of waiting acquires)
  woken,       \* woken[l]: the first waiter of l has been woken up
  held,        \* held[s]: locks acquired for s and not yet released
  stopPath,    \* stopPath[s]: await_deps of s returned False
  genOpen,     \* genOpen[s]: await_requirements left suspended at `yield True`
  started,     \* started[s]: execute() of s was called
  tracer,      \* the tracer list
  hist         \* observations for the properties (not program state)

\* the scheduler, its tasks and the locks
coreVars == <<ntop, kind, queue, leafLocks, ready, cur, pc, res, susp, cancelReq,
              inbox, seen, cbs, deps, taskGroups, locked, lockWaiters, woken, held,
              stopPath, genOpen, started, tracer, hist>>

\* one Repeat step followed from its sanity checks through its batch loop
VARIABLES
  rkind,       \* rkind[i]: what the i-th child of the Repeat is
  rcfg,        \* the Repeat's properties and how its children are instantiated
  rpc,         \* where the Repeat is
  rbatch,      \* batch_idx + 1 of the batch being scheduled or awaited
  rres,        \* rres[b][i]: state or result of the task of child i in batch b
  rseen,       \* tasks consumed from the current as_completed
  rcount,      \* monitor_done_count
  rexit        \* how execute (or the sanity check) ended

repeatVars == <<rkind, rcfg, rpc, rbatch, rres, rseen, rcount, rexit>>

\* one dynamic step followed through prepare_for_execution, execute, resume
VARIABLES
  dcfg,        \* what on_start, on_finish and get_simulation_steps return
  dsim,        \* platform_controller.simulation
  dblock,      \* start_block (set: it is not None)
  dstarted,    \* started
  dpc,         \* where the dynamic step is
  dphase,      \* the block execute is running
  dtodo,       \* the steps of the block that are still to run
  dlog,        \* what execute did, in order (not program state)
  dasync,      \* async_steps
  dkilled,     \* the asynchronous steps whose kill() was called
  dret,        \* how execute ended
  dncont,      \* calls of on_continue in this execute
  druns,       \* calls of execute
  dresumed     \* resume() was called

dynVars == <<dcfg, dsim, dblock, dstarted, dpc, dphase, dtodo, dlog, dasync,
             dkilled, dret, dncont, druns, dresumed>>

\* Async steps and the Await steps of their procedure
VARIABLES
  apid,        \* the property pid of each Async step
  atop,        \* the Async step is in the procedure's list of steps
  alen,        \* how many children it has
  ahascb,      \* the property on_finish is given
  apc,         \* where the thread of the Async step is
  ai,          \* the child its body is executing
  afinished,   \* finished
  ashould_end, \* _should_end
  aend,        \* how the body of its last execution ended
  acalls,      \* calls of on_finish in its last execution
  aseen,       \* the body read _should_end as true (not program state)
  aruns,       \* calls of execute
  wxdl,        \* the Await steps' context has the procedure
  wpid,        \* the pid of the Await step that executes
  wpc,         \* where Await.execute is
  wtodo,       \* the Async steps its loop still has to wait for
  wruns,       \* calls of Await.execute
  wsince       \* Async steps executed since Await.execute began (not program
               \* state)

asyncVars == <<apid, atop, alen, ahascb, apc, ai, afinished, ashould_end, aend,
               acalls, aseen, aruns, wxdl, wpid, wpc, wtodo, wruns, wsince>>

\* one XDL object and its executor through compile, load and execute
VARIABLES
  eimpl,       \* the executor class: the abstract one or a platform's
  xcompiled,   \* XDL.compiled
  xhash,       \* XDL.graph_sha256
  eflag,       \* executor._prepared_for_execution
  estray,      \* executor._prepared
  egraph,      \* executor._graph
  xlast,       \* the last call made and its arguments (not program state)
  xerr,        \* the error that call raised
  xtasks,      \* step tasks created so far
  xpending,    \* step tasks created and not run
  xran,        \* the graphs leaf actions ran on, with graph_sha256 then
  xdropped,    \* coroutine objects made and never run
  xprep,       \* times the executor's prepare_for_execution altered the steps
  xcalls       \* calls made

xdlVars == <<eimpl, xcompiled, xhash, eflag, estray, egraph, xlast, xerr,
             xtasks, xpending, xran, xdropped, xprep, xcalls>>

\* the variables of the steps followed on their own
VARIABLES
  sowner,      \* whose registry it is: the procedure's or a composite step's
  squeue,      \* Step.queue of each child
  sreg,        \* the task-group registry: queue -> list of tasks
  sexec,       \* executions started so far
  spc,         \* "off", "idle" (no execution in progress) or "running"
  sres,        \* state or result of every task
  sdeps,       \* the deps each task was created with
  sold,        \* tasks awaited by this execution that were done when it began
  scompl,      \* the tasks in the order they finished
  sseen,       \* tasks whose result this execution has consumed
  sret         \* what each execution returned

rerunVars == <<sowner, squeue, sreg, sexec, spc, sres, sdeps, sold, scompl,
               sseen, sret>>

VARIABLES
  cprops,      \* self.properties: name -> value (Absent: no such key)
  clast,       \* self._last_props
  csteps,      \* self._steps
  cret,        \* what the last read of steps returned (not program state)
  ccomp,       \* runs of get_steps so far
  creads,      \* reads of steps so far
  cwrites,     \* property writes so far
  cpc          \* "off" or "on"

cacheVars == <<cprops, clast, csteps, cret, ccomp, creads, cwrites, cpc>>

VARIABLES
  bspecs,      \* the matches of each predicate of the loop variable, in order
  bi,          \* predicates resolved so far
  ball,        \* all_matches
  bout,        \* the values the variable is bound to, one binding each
  bpc          \* "off", "specs" (in the loop over the predicates), "done"
               \* or "raised"

bindVars == <<bspecs, bi, ball, bout, bpc>>

VARIABLES
  kdecl,       \* kdecl[i]: the locks the i-th child of the Async step declares
  kmlocks,     \* the locks the main-schedule step declares
  klocked,     \* the locks of the platform controller that are locked
  kmpc,        \* the main-schedule step: "off", "new", "body" or "done"
  ktpc,        \* the Async step: "off", "new", "thread", "child", "finished"
  ki           \* the child the thread of the Async step is at

alockVars == <<kdecl, kmlocks, klocked, kmpc, ktpc, ki>>

extVars == <<repeatVars, dynVars, asyncVars, xdlVars, rerunVars, cacheVars,
             bindVars, alockVars>>

vars == <<coreVars, extVars>>

\* ---------------------------------------------------------------- helpers
TopSteps == 1..ntop
Kids == (ntop + 1)..NumSteps

Parent(s) == IF s \in Kids THEN Comp ELSE NoParent

ChildrenOf(p) == IF p = Exec THEN TopSteps ELSE IF p = Comp THEN Kids ELSE {}

\* Step.locks / AbstractStep.locks / Repeat.locks
StepLocks(s) ==
  IF kind[s] = "leaf" THEN leafLocks[s]
  ELSE IF kind[s] = "comp" THEN UNION {leafLocks[k] : k \in ChildrenOf(s)}
  ELSE {}

RECURSIVE TreeLocks(_)
TreeLocks(s) ==
  IF Parent(s) = NoParent THEN StepLocks(s)
  ELSE TreeLocks(Parent(s)) \cup StepLocks(s)

\* a faulty execute_step that does not subtract the parent chain's locks
ParentLocksNone(s) == {}

ParentLocks(s) == IF Parent(s) = NoParent THEN {} ELSE TreeLocks(Parent(s))

\* the locks execute_step acquires: the ones passed in, less the parent chain's
Need(s) == StepLocks(s) \ ParentLocks(s)

\* all enumerations of a finite set as a sequence
RECURSIVE Perms(_)
Perms(S) ==
  IF S = {} THEN {<<>>}
  ELSE UNION {{<<x>> \o p : p \in Perms(S \ {x})} : x \in S}

RECURSIVE SeqToSet(_)
SeqToSet(q) == IF q = <<>> THEN {} ELSE {Head(q)} \cup SeqToSet(Tail(q))

\* handles of the event loop
\* (k: kind, t: task, f: finished future, a: lock name or as_completed phase)
HStep(t) == [k |-> "step", t |-> t, f |-> 0, a |-> ""]
HCb(w, f, ph) == [k |-> "cb", t |-> w, f |-> f, a |-> ph]
HAcq(s, l) == [k |-> "acq", t |-> s, f |-> 0, a |-> l]
HAcqWake(s, l) == [k |-> "acqwake", t |-> s, f |-> 0, a |-> l]

\* handles for a sequence of finished futures fs delivered to waiter w
RECURSIVE CbSeq(_, _, _)
CbSeq(w, fs, ph) ==
  IF fs = <<>> THEN <<>> ELSE <<HCb(w, Head(fs), ph)>> \o CbSeq(w, Tail(fs), ph)

\* Future.__schedule_callbacks: one handle per done-callback of task t
RECURSIVE DoneHandles(_, _)
DoneHandles(t, cs) ==
  IF cs = <<>> THEN <<>>
  ELSE <<HCb(Head(cs).w, t, Head(cs).ph)>> \o DoneHandles(t, Tail(cs))

\* ------------------------------------------------------ task-group registry
\* a defaultdict(list): keys in insertion order and the list of each key
EmptyGroups == [keys |-> <<>>, tasks |-> [q \in Queues |-> <<>>]]

Touch(tg, q) ==
  IF q \in SeqToSet(tg.keys) THEN tg ELSE [tg EXCEPT !.keys = Append(@, q)]

RECURSIVE ChainKeys(_, _)
ChainKeys(tg, ks) ==
  IF ks = <<>> THEN <<>> ELSE tg.tasks[Head(ks)] \o ChainKeys(tg, Tail(ks))

\* chain(*task_groups.values())
AllTasks(tg) == ChainKeys(tg, tg.keys)

\* a faulty get_deps: a queued step does not depend on its own queue
GetDepsNoOwnQueue(s, tg) ==
  IF queue[s] = NoQueue THEN SeqToSet(AllTasks(tg))
  ELSE SeqToSet(tg.tasks[NoQueue])

\* a faulty get_deps: a queued step does not depend on the unqueued tasks
GetDepsNoBarrier(s, tg) ==
  IF queue[s] = NoQueue THEN SeqToSet(AllTasks(tg))
  ELSE SeqToSet(tg.tasks[queue[s]])

\* a faulty get_deps: a queued step depends on every task scheduled so far
GetDepsAll(s, tg) == SeqToSet(AllTasks(tg))

\* a faulty get_deps: an unqueued step depends on nothing
GetDepsQueuedOnly(s, tg) ==
  IF queue[s] = NoQueue THEN {}
  ELSE SeqToSet(tg.tasks[queue[s]]) \cup SeqToSet(tg.tasks[NoQueue])

\* Step.get_deps: the tasks step s depends on
GetDeps(s, tg) ==
  IF queue[s] = NoQueue THEN SeqToSet(AllTasks(tg))
  ELSE SeqToSet(tg.tasks[queue[s]]) \cup SeqToSet(tg.tasks[NoQueue])

\* the registry after get_deps(s) and task_groups[s.queue].append(task)
AfterSchedule(s, tg) ==
  LET t1 == IF queue[s] = NoQueue THEN tg
            ELSE Touch(Touch(tg, queue[s]), NoQueue)
      t2 == Touch(t1, queue[s])
  IN [t2 EXCEPT !.tasks[queue[s]] = Append(@, s)]

\* the scheduling loop over the children cs (in declaration order)
RECURSIVE SchedGroups(_, _)
SchedGroups(cs, tg) ==
  IF cs = <<>> THEN tg ELSE SchedGroups(Tail(cs), AfterSchedule(Head(cs), tg))

RECURSIVE SchedDeps(_, _, _)
SchedDeps(cs, tg, d) ==
  IF cs = <<>> THEN d
  ELSE SchedDeps(Tail(cs), AfterSchedule(Head(cs), tg),
                 [d EXCEPT ![Head(cs)] = GetDeps(Head(cs), tg)])

RECURSIVE StepHandles(_)
StepHandles(cs) ==
  IF cs = <<>> THEN <<>> ELSE <<HStep(Head(cs))>> \o StepHandles(Tail(cs))

ChildSeq(p) ==
  IF p = Exec THEN [i \in 1..ntop |-> i]
  ELSE IF p = Comp THEN [i \in 1..(NumSteps - ntop) |-> ntop + i]
  ELSE <<>>

LockOrder == <<"L1", "L2">>

RECURSIVE AcqHandles(_, _)
AcqHandles(s, ls) ==
  IF ls = <<>> THEN <<>> ELSE <<HAcq(s, Head(ls))>> \o AcqHandles(s, Tail(ls))

\* Lock.release for every lock of rel: the first waiter of each is woken up
RECURSIVE WakeSeq(_, _)
WakeSeq(ls, rel) ==
  IF ls = <<>> THEN <<>>
  ELSE (IF Head(ls) \in rel /\ lockWaiters[Head(ls)] # <<>> /\ ~woken[Head(ls)]
        THEN <<HAcqWake(Head(lockWaiters[Head(ls)]), Head(ls))>> ELSE <<>>)
       \o WakeSeq(Tail(ls), rel)

WakeHandles(rel) == WakeSeq(LockOrder, rel)

\* the tasks scheduled by p whose execute() has not been called yet
NotStarted(p) == {t \in ChildrenOf(p) : ~started[t] /\ pc[t] # "done"}

Level(s) == IF Parent(s) = NoParent THEN Exec ELSE Parent(s)

\* --------------------------------------------------------------------- Init
\* queue tags up to renaming: at each level the explicit tags first appear
\* in the order of TagOrder
Canonical(q, level) ==
  \A s \in level : \A i \in DOMAIN TagOrder \ {1} :
     q[s] = TagOrder[i] => \E t \in level : t < s /\ q[t] = TagOrder[i - 1]

InitShape ==
  /\ ntop \in 2..(NumSteps - 1)
  /\ kind \in {k \in [Steps -> {"leaf", "comp", "repeat"}] :
                 /\ k[Comp] # "leaf"
                 /\ \A s \in Leaves : k[s] = "leaf"}
  /\ queue \in {q \in [Steps -> Queues] :
                  Canonical(q, 1..ntop) /\ Canonical(q, (ntop + 1)..NumSteps)}
  /\ leafLocks \in {f \in [Steps -> LockSets] : f[Comp] = {}}

\* nothing is scheduled yet: the executor's task is the only handle
InitLoop ==
  /\ ready = <<HStep(Exec)>>
  /\ cur = <<>>
  /\ pc = [t \in Tasks |-> IF t = Exec THEN "new" ELSE "unborn"]
  /\ res = [t \in Tasks |-> "none"]
  /\ susp = [t \in Tasks |-> FALSE]
  /\ cancelReq = [t \in Tasks |-> FALSE]
  /\ inbox = [t \in Tasks |-> <<>>]
  /\ seen = [t \in Tasks |-> 0]
  /\ cbs = [t \in Tasks |-> <<>>]
  /\ deps = [s \in Steps |-> {}]
  /\ taskGroups = [p \in {Exec, Comp} |-> EmptyGroups]
  /\ locked = [l \in Locks |-> FALSE]
  /\ lockWaiters = [l \in Locks |-> <<>>]
  /\ woken = [l \in Locks |-> FALSE]
  /\ held = [s \in Steps |-> {}]
  /\ stopPath = [s \in Steps |-> FALSE]
  /\ genOpen = [s \in Steps |-> FALSE]
  /\ started = [s \in Steps |-> FALSE]
  /\ tracer = <<>>
  /\ hist = [everAcq |-> [s \in Steps |-> {}],
             everRel |-> [s \in Steps |-> {}],
             waitedFor |-> [s \in Steps |-> {}],
             pendingAtStop |-> [p \in {Exec, Comp} |-> {}]]

\* ------------------------------------------------- the Repeat on its own
Children == 1..NumChildren
Batches == 1..MaxBatches

\* "monitor": an AbstractMonitorStep or a MockMeasure; "wrapper": a composite
\* step that is no monitor but hands on the DONE of one of its own children
\* (or a Callback whose function returns DONE); "plain": any other step
ChildKinds == {"monitor", "wrapper", "plain"}

\* fresh: the children are step templates, instantiated anew for every batch
\* (steps_from_step_templates); otherwise the same objects are yielded again.
\* hasRepeats: `repeats` is not None; hasLoopVars: loop_variables is not empty;
\* singleSpec: some loop variable is declared with one predicate only
RepeatConfigs ==
  {c \in [fresh : BOOLEAN, hasRepeats : BOOLEAN, repeats : 0..MaxRepeats,
          hasLoopVars : BOOLEAN, matches : 0..MaxMatches,
          singleSpec : BOOLEAN] :
     /\ (~c.hasRepeats => c.repeats = 0)
     /\ (~c.hasLoopVars => c.matches = 0 /\ ~c.singleSpec)}

NoTasks == [b \in Batches |-> [i \in Children |-> "unborn"]]

\* the Repeat is not followed
RepeatIdle ==
  /\ rkind = [i \in Children |-> "plain"]
  /\ rcfg = [fresh |-> TRUE, hasRepeats |-> FALSE, repeats |-> 0,
             hasLoopVars |-> FALSE, matches |-> 0, singleSpec |-> FALSE]
  /\ rpc = "off"
  /\ rbatch = 0
  /\ rres = NoTasks
  /\ rseen = {}
  /\ rcount = 0
  /\ rexit = "none"

\* --------------------------------------------- the dynamic step on its own
StepKinds == {"plain", "async"}

\* the blocks a lifecycle method may return
DBlocks == UNION {[1..n -> StepKinds] : n \in 0..MaxBlockLen}

\* the steps of block b with their place in it
Numbered(b) == [i \in 1..Len(b) |-> [k |-> b[i], i |-> i, n |-> Len(b)]]

\* the dynamic step is not followed
DynIdle ==
  /\ dcfg = [start |-> <<>>, fin |-> <<>>, sim |-> <<>>]
  /\ dsim = FALSE
  /\ dblock = [set |-> FALSE, b |-> <<>>]
  /\ dstarted = FALSE
  /\ dpc = "off"
  /\ dphase = "none"
  /\ dtodo = <<>>
  /\ dlog = <<>>
  /\ dasync = <<>>
  /\ dkilled = {}
  /\ dret = "none"
  /\ dncont = 0
  /\ druns = 0
  /\ dresumed = FALSE

\* the Async steps
Asyncs == 1..NumAsync

\* the values of pid given to Async steps, and to Await steps
APids == {"p1", "p2"}
WPids == APids \cup {"", "p3"}

\* no Async or Await step is followed
AsyncIdle ==
  /\ apid = [a \in Asyncs |-> "p1"]
  /\ atop = [a \in Asyncs |-> FALSE]
  /\ alen = [a \in Asyncs |-> 1]
  /\ ahascb = [a \in Asyncs |-> FALSE]
  /\ apc = [a \in Asyncs |-> "off"]
  /\ ai = [a \in Asyncs |-> 0]
  /\ afinished = [a \in Asyncs |-> FALSE]
  /\ ashould_end = [a \in Asyncs |-> FALSE]
  /\ aend = [a \in Asyncs |-> "none"]
  /\ acalls = [a \in Asyncs |-> 0]
  /\ aseen = [a \in Asyncs |-> FALSE]
  /\ aruns = [a \in Asyncs |-> 0]
  /\ wxdl = FALSE
  /\ wpid = ""
  /\ wpc = "off"
  /\ wtodo = <<>>
  /\ wruns = 0
  /\ wsince = {}

\* the graphs of the platform controllers and of compilation; g1copy has
\* the nodes and links of g1
Graphs == {"g1", "g1copy", "g2"}

\* AbstractXDLExecutor._graph_hash: the hash of the graph's node-link data
GraphHash(g) == IF g \in {"g1", "g1copy"} THEN "h1" ELSE "h2"

Hashes == {GraphHash(g) : g \in Graphs}

\* a call and its arguments
Call(op, g, ok, step, block) ==
  [op |-> op, g |-> g, ok |-> ok, step |-> step, block |-> block]

\* no XDL object is followed
XdlIdle ==
  /\ eimpl = "abstract"
  /\ xcompiled = FALSE
  /\ xhash = "none"
  /\ eflag = FALSE
  /\ estray = FALSE
  /\ egraph = "none"
  /\ xlast = Call("off", "none", TRUE, "none", FALSE)
  /\ xerr = "none"
  /\ xtasks = 0
  /\ xpending = 0
  /\ xran = {}
  /\ xdropped = 0
  /\ xprep = 0
  /\ xcalls = 0

\* the children of the scheduler run repeatedly, its executions, its tasks
SKids == 1..SNumKids
SExecs == 1..MaxExecs
STasks == SExecs \X SKids
SQueues == {NoQueue, "a"}
Owners == {"procedure", "composite"}

\* collections.defaultdict(list)
SEmpty == [q \in SQueues |-> <<>>]

\* no repeatedly run scheduler is followed
RerunIdle ==
  /\ sowner = "composite"
  /\ squeue = [k \in SKids |-> NoQueue]
  /\ sreg = SEmpty
  /\ sexec = 0
  /\ spc = "off"
  /\ sres = [t \in STasks |-> "none"]
  /\ sdeps = [t \in STasks |-> {}]
  /\ sold = {}
  /\ scompl = <<>>
  /\ sseen = {}
  /\ sret = [e \in SExecs |-> "none"]

\* the property names and values of the composite step whose steps are read
PropNames == 1..NumProps
Absent == "absent"
PropVals == {"u", "v"}
NoProps == [k \in PropNames |-> Absent]
NoSteps == "empty"

\* no composite step's child list is followed
CacheIdle ==
  /\ cprops = NoProps
  /\ clast = NoProps
  /\ csteps = NoSteps
  /\ cret = NoSteps
  /\ ccomp = 0
  /\ creads = 0
  /\ cwrites = 0
  /\ cpc = "off"

\* the ids of the reagents and components a predicate can match
Items == 1..NumItems

\* no loop variable is followed
BindIdle ==
  /\ bspecs = <<>>
  /\ bi = 0
  /\ ball = {}
  /\ bout = {}
  /\ bpc = "off"

\* no Async step with lock-declaring children is followed
AlockIdle ==
  /\ kdecl = <<>>
  /\ kmlocks = {}
  /\ klocked = {}
  /\ kmpc = "off"
  /\ ktpc = "off"
  /\ ki = 0

ExtIdle ==
  /\ RepeatIdle /\ DynIdle /\ AsyncIdle /\ XdlIdle /\ RerunIdle /\ CacheIdle
  /\ BindIdle /\ AlockIdle

\* the scheduler is not followed: nothing is scheduled and nothing will be
CoreIdle ==
  /\ ntop = 2
  /\ kind = [s \in Steps |-> IF s = Comp THEN "comp" ELSE "leaf"]
  /\ queue = [s \in Steps |-> NoQueue]
  /\ leafLocks = [s \in Steps |-> {}]
  /\ InitLoop

Init == InitShape /\ InitLoop /\ ExtIdle

\* ------------------------------------------------------------ leaving a task
\* The task of step s ends with outcome r after releasing the locks rel
\* (Step.release_locks in the finally of await_requirements); base is the
\* ready queue before the handles this adds.
Exit(s, r, rel, trace, base) ==
  /\ pc' = [pc EXCEPT ![s] = "done"]
  /\ res' = [res EXCEPT ![s] = r]
  /\ locked' = [l \in Locks |-> IF l \in rel THEN FALSE ELSE locked[l]]
  /\ woken' = [l \in Locks |->
                 IF l \in rel /\ lockWaiters[l] # <<>> THEN TRUE ELSE woken[l]]
  /\ held' = [held EXCEPT ![s] = @ \ rel]
  /\ ready' = base \o WakeHandles(rel) \o DoneHandles(s, cbs[s])
  /\ tracer' = IF trace THEN Append(tracer, s) ELSE tracer
  /\ hist' = [hist EXCEPT
                !.everRel[s] = @ \cup rel,
                !.pendingAtStop = IF r = "F" /\ s = Comp
                                  THEN [@ EXCEPT ![Comp] = NotStarted(Comp)]
                                  ELSE @]
  /\ cur' = <<>>
  /\ cancelReq' = [cancelReq EXCEPT ![s] = FALSE]
  /\ susp' = [susp EXCEPT ![s] = FALSE]

\* ------------------------------------------------------------- the event loop
Idle == cur = <<>> /\ ready # <<>>

\* as_completed._on_completion: the finished future goes to the waiter's
\* `done` queue and wakes the waiter if it is blocked in done.get()
RunCb ==
  /\ Idle /\ Head(ready).k = "cb"
  /\ LET h == Head(ready) IN
       IF pc[h.t] = h.a
       THEN /\ inbox' = [inbox EXCEPT ![h.t] = Append(@, h.f)]
            /\ susp' = [susp EXCEPT ![h.t] = FALSE]
            /\ ready' = IF susp[h.t] THEN Tail(ready) \o <<HStep(h.t)>>
                        ELSE Tail(ready)
       ELSE /\ ready' = Tail(ready)
            /\ UNCHANGED <<inbox, susp>>
  /\ UNCHANGED <<extVars, ntop, kind, queue, leafLocks, cur, pc, res, cancelReq, seen, cbs,
                 deps, taskGroups, locked, lockWaiters, woken, held,
                 stopPath, genOpen, started, tracer, hist>>

\* the task wrapping lock.acquire(): take the lock if it is free and nobody
\* waits for it, else join the lock's waiters
RunAcq ==
  /\ Idle /\ Head(ready).k = "acq"
  /\ LET s == Head(ready).t
         l == Head(ready).a IN
       IF ~locked[l] /\ lockWaiters[l] = <<>>
       THEN /\ locked' = [locked EXCEPT ![l] = TRUE]
            /\ held' = [held EXCEPT ![s] = @ \cup {l}]
            /\ hist' = [hist EXCEPT !.everAcq[s] = @ \cup {l}]
            /\ ready' = Tail(ready) \o <<HCb(s, 0, "acq")>>
            /\ UNCHANGED lockWaiters
       ELSE /\ lockWaiters' = [lockWaiters EXCEPT ![l] = Append(@, s)]
            /\ hist' = [hist EXCEPT !.waitedFor[s] = @ \cup {l}]
            /\ ready' = Tail(ready)
            /\ UNCHANGED <<locked, held>>
  /\ UNCHANGED <<extVars, ntop, kind, queue, leafLocks, cur, pc, res, susp, cancelReq, inbox,
                 seen, cbs, deps, taskGroups, woken, stopPath,
                 genOpen, started, tracer>>

\* a waiting lock.acquire() resumes after release() woke it up
RunAcqWake ==
  /\ Idle /\ Head(ready).k = "acqwake"
  /\ LET s == Head(ready).t
         l == Head(ready).a IN
       /\ lockWaiters' = [lockWaiters EXCEPT ![l] = Tail(@)]
       /\ woken' = [woken EXCEPT ![l] = FALSE]
       /\ locked' = [locked EXCEPT ![l] = TRUE]
       /\ held' = [held EXCEPT ![s] = @ \cup {l}]
       /\ hist' = [hist EXCEPT !.everAcq[s] = @ \cup {l}]
       /\ ready' = Tail(ready) \o <<HCb(s, 0, "acq")>>
  /\ UNCHANGED <<extVars, ntop, kind, queue, leafLocks, cur, pc, res, susp, cancelReq, inbox,
                 seen, cbs, deps, taskGroups, stopPath, genOpen,
                 started, tracer>>

\* Task.__step of a task that is not cancelled: the task runs
Resume ==
  /\ Idle /\ Head(ready).k = "step"
  /\ ~cancelReq[Head(ready).t]
  /\ cur' = <<Head(ready).t>>
  /\ ready' = Tail(ready)
  /\ UNCHANGED <<extVars, ntop, kind, queue, leafLocks, pc, res, susp, cancelReq, inbox, seen,
                 cbs, deps, taskGroups, locked, lockWaiters, woken, held,
                 stopPath, genOpen, started, tracer, hist>>

\* Task.__step of a cancelled task: CancelledError is thrown at the await the
\* task is suspended in.  Inside the try of await_requirements (the body) the
\* finally releases the locks; before it (dependencies, lock polling, lock
\* acquisition) nothing is released.
Cancelled ==
  /\ Idle /\ Head(ready).k = "step"
  /\ cancelReq[Head(ready).t]
  /\ LET s == Head(ready).t IN
       Exit(s, "cancelled",
            IF pc[s] \in {"body", "kids"} THEN Need(s) ELSE {},
            FALSE, Tail(ready))
  /\ UNCHANGED <<extVars, ntop, kind, queue, leafLocks, inbox, seen, cbs, deps, taskGroups,
                 lockWaiters, stopPath, genOpen, started>>

\* ------------------------------------------------------------- schedulers
\* asyncio.as_completed(all_tasks) by scheduler p: a done-callback on every
\* task that is still pending
Registered(p, ts, ph) ==
  [t \in Tasks |->
     IF t \in ts /\ pc[t] # "done" THEN Append(cbs[t], [w |-> p, ph |-> ph])
     ELSE cbs[t]]

\* the scheduling loop of p: one task per child, in declaration order, each
\* with the dependencies get_deps computes from the registry at that moment
Schedule(p, tg) ==
  LET cs == ChildSeq(p)
      tg1 == SchedGroups(cs, tg) IN
    /\ taskGroups' = [taskGroups EXCEPT ![p] = tg1]
    /\ deps' = SchedDeps(cs, tg, deps)
    /\ pc' = [t \in Tasks |->
                IF t \in SeqToSet(cs) THEN "new" ELSE IF t = p THEN "kids" ELSE pc[t]]
    /\ ready' = ready \o StepHandles(cs)
    /\ cbs' = [t \in Tasks |->
                 IF t \in SeqToSet(AllTasks(tg1))
                 THEN Append(cbs[t], [w |-> p, ph |-> "kids"]) ELSE cbs[t]]
    /\ inbox' = [inbox EXCEPT ![p] = <<>>]
    /\ seen' = [seen EXCEPT ![p] = 0]
    /\ susp' = [susp EXCEPT ![p] = TRUE]
    /\ cur' = <<>>

\* AbstractXDLExecutor.execute: schedule every step of the procedure
ExecStart ==
  /\ cur = <<Exec>> /\ pc[Exec] = "new"
  /\ Schedule(Exec, EmptyGroups)
  /\ UNCHANGED <<extVars, ntop, kind, queue, leafLocks, res, cancelReq, locked, lockWaiters,
                 woken, held, stopPath, genOpen, started, tracer, hist>>

\* t.cancel() for every task of ts, in order: a task suspended on a pending
\* future is woken up with CancelledError, any other one is marked
RECURSIVE CancelHandles(_)
CancelHandles(ts) ==
  IF ts = <<>> THEN <<>>
  ELSE (IF pc[Head(ts)] # "done" /\ susp[Head(ts)]
        THEN <<HStep(Head(ts))>> ELSE <<>>) \o CancelHandles(Tail(ts))

\* AbstractXDLExecutor.execute: await the tasks in completion order; on a
\* stop cancel all of them and leave the loop
ExecAwait ==
  /\ cur = <<Exec>> /\ pc[Exec] = "kids"
  /\ IF inbox[Exec] = <<>>
     THEN /\ susp' = [susp EXCEPT ![Exec] = TRUE]
          /\ cur' = <<>>
          /\ UNCHANGED <<pc, res, inbox, seen, cancelReq, ready, hist>>
     ELSE LET f == Head(inbox[Exec])
              at == AllTasks(taskGroups[Exec]) IN
       CASE res[f] = "T" ->
              /\ inbox' = [inbox EXCEPT ![Exec] = Tail(@)]
              /\ seen' = [seen EXCEPT ![Exec] = @ + 1]
              /\ IF seen[Exec] + 1 = Len(at)
                 THEN /\ pc' = [pc EXCEPT ![Exec] = "done"]
                      /\ res' = [res EXCEPT ![Exec] = "T"]
                      /\ cur' = <<>>
                 ELSE UNCHANGED <<pc, res, cur>>
              /\ UNCHANGED <<susp, cancelReq, ready, hist>>
         [] res[f] = "F" ->
              /\ cancelReq' = [t \in Tasks |->
                                 IF t \in SeqToSet(at) /\ pc[t] # "done"
                                 THEN TRUE ELSE cancelReq[t]]
              /\ susp' = [t \in Tasks |->
                            IF t \in SeqToSet(at) THEN FALSE ELSE susp[t]]
              /\ ready' = ready \o CancelHandles(at)
              /\ pc' = [pc EXCEPT ![Exec] = "done"]
              /\ res' = [res EXCEPT ![Exec] = "F"]
              /\ hist' = [hist EXCEPT !.pendingAtStop[Exec] = NotStarted(Exec)]
              /\ cur' = <<>>
              /\ UNCHANGED <<inbox, seen>>
         [] OTHER ->
              /\ pc' = [pc EXCEPT ![Exec] = "done"]
              /\ res' = [res EXCEPT ![Exec] = res[f]]
              /\ cur' = <<>>
              /\ UNCHANGED <<inbox, seen, susp, cancelReq, ready, hist>>
  /\ UNCHANGED <<extVars, ntop, kind, queue, leafLocks, cbs, deps, taskGroups, locked,
                 lockWaiters, woken, held, stopPath, genOpen, started,
                 tracer>>

\* ------------------------------------------------------------- execute_step
\* execute_step up to the first await of await_deps: without dependencies go
\* on to the locks, else as_completed(deps) and wait for the first result
StartStep(s) ==
  /\ cur = <<s>> /\ pc[s] = "new"
  /\ IF deps[s] = {}
     THEN /\ pc' = [pc EXCEPT ![s] = "locks"]
          /\ UNCHANGED <<ready, cbs, inbox, seen, susp, cur>>
     ELSE /\ \E ord \in Perms({d \in deps[s] : pc[d] = "done"}) :
               ready' = ready \o CbSeq(s, ord, "deps")
          /\ cbs' = Registered(s, deps[s], "deps")
          /\ pc' = [pc EXCEPT ![s] = "deps"]
          /\ inbox' = [inbox EXCEPT ![s] = <<>>]
          /\ seen' = [seen EXCEPT ![s] = 0]
          /\ susp' = [susp EXCEPT ![s] = TRUE]
          /\ cur' = <<>>
  /\ UNCHANGED <<extVars, ntop, kind, queue, leafLocks, res, cancelReq, deps, taskGroups,
                 locked, lockWaiters, woken, held, stopPath, genOpen,
                 started, tracer, hist>>

\* a faulty await_deps: the first result ends the wait
DepsAwaitedFirst(s, n) == n >= 1

\* the loop of await_deps has consumed every result of as_completed(deps)
DepsAwaited(s, n) == n = Cardinality(deps[s])

\* Step.await_deps: results in completion order; False as soon as one
\* dependency returned False, the dependency's exception if it raised.
\* After `yield False` the caller returns and the context manager resumes the
\* generator, which goes on to acquire_locks.
AwaitDeps(s) ==
  /\ cur = <<s>> /\ pc[s] = "deps"
  /\ IF inbox[s] = <<>>
     THEN /\ susp' = [susp EXCEPT ![s] = TRUE]
          /\ cur' = <<>>
          /\ UNCHANGED <<pc, res, inbox, seen, stopPath, ready, locked, woken,
                         held, tracer, hist, cancelReq>>
     ELSE LET d == Head(inbox[s]) IN
       CASE res[d] = "T" ->
              /\ inbox' = [inbox EXCEPT ![s] = Tail(@)]
              /\ seen' = [seen EXCEPT ![s] = @ + 1]
              /\ pc' = [pc EXCEPT ![s] =
                          IF DepsAwaited(s, seen[s] + 1) THEN "locks" ELSE @]
              /\ UNCHANGED <<res, stopPath, ready, locked, woken, held, tracer,
                             hist, cancelReq, susp, cur>>
         [] res[d] = "F" ->
              /\ stopPath' = [stopPath EXCEPT ![s] = TRUE]
              /\ pc' = [pc EXCEPT ![s] = "locks"]
              /\ UNCHANGED <<res, inbox, seen, ready, locked, woken, held,
                             tracer, hist, cancelReq, susp, cur>>
         [] OTHER ->
              /\ Exit(s, res[d], {}, FALSE, ready)
              /\ UNCHANGED <<inbox, seen, stopPath>>
  /\ UNCHANGED <<extVars, ntop, kind, queue, leafLocks, cbs, deps, taskGroups, lockWaiters,
                 genOpen, started>>

\* Step.acquire_locks: nothing to do without locks; else poll every 0.5 s
\* until no requested lock is locked, then start one lock.acquire() per lock
\* and wait for them in completion order
AcquireLocks(s) ==
  /\ cur = <<s>> /\ pc[s] \in {"locks", "poll"}
  /\ IF Need(s) = {}
     THEN /\ pc' = [pc EXCEPT ![s] = "acquired"]
          /\ UNCHANGED <<ready, inbox, seen, susp, cur, hist>>
     ELSE IF \A l \in Need(s) : ~locked[l]
     THEN /\ \E ord \in Perms(Need(s)) : ready' = ready \o AcqHandles(s, ord)
          /\ pc' = [pc EXCEPT ![s] = "acq"]
          /\ inbox' = [inbox EXCEPT ![s] = <<>>]
          /\ seen' = [seen EXCEPT ![s] = 0]
          /\ susp' = [susp EXCEPT ![s] = TRUE]
          /\ cur' = <<>>
          /\ UNCHANGED hist
     ELSE /\ pc' = [pc EXCEPT ![s] = "poll"]
          /\ susp' = [susp EXCEPT ![s] = TRUE]
          /\ hist' = [hist EXCEPT
                        !.waitedFor[s] = @ \cup {l \in Need(s) : locked[l]}]
          /\ cur' = <<>>
          /\ UNCHANGED <<ready, inbox, seen>>
  /\ UNCHANGED <<extVars, ntop, kind, queue, leafLocks, res, cancelReq, cbs, deps, taskGroups,
                 locked, lockWaiters, woken, held, stopPath, genOpen,
                 started, tracer>>

\* the end of acquire_locks: every lock.acquire() has completed
AwaitAcquired(s) ==
  /\ cur = <<s>> /\ pc[s] = "acq"
  /\ IF inbox[s] = <<>>
     THEN /\ susp' = [susp EXCEPT ![s] = TRUE]
          /\ cur' = <<>>
          /\ UNCHANGED <<pc, inbox, seen>>
     ELSE /\ inbox' = [inbox EXCEPT ![s] = Tail(@)]
          /\ seen' = [seen EXCEPT ![s] = @ + 1]
          /\ pc' = [pc EXCEPT ![s] =
                      IF seen[s] + 1 = Cardinality(Need(s)) THEN "acquired" ELSE @]
          /\ UNCHANGED <<susp, cur>>
  /\ UNCHANGED <<extVars, ntop, kind, queue, leafLocks, ready, res, cancelReq, cbs, deps,
                 taskGroups, locked, lockWaiters, woken, held,
                 stopPath, genOpen, started, tracer, hist>>

\* await_requirements reaches `yield True`.  On the first yield the body of
\* the `async with` starts.  After `yield False` this is a second yield: the
\* context manager raises RuntimeError("generator didn't stop"); it either
\* closes the generator first (its finally releases the locks) or leaves it
\* suspended with the locks held until the generator is finalised.
Acquired(s) ==
  /\ cur = <<s>> /\ pc[s] = "acquired"
  /\ IF ~stopPath[s]
     THEN /\ pc' = [pc EXCEPT ![s] = "enter"]
          /\ UNCHANGED <<res, ready, locked, woken, held, tracer, hist, cur,
                         cancelReq, susp, genOpen>>
     ELSE \/ /\ Exit(s, "generr", Need(s), FALSE, ready)
             /\ UNCHANGED genOpen
          \/ /\ Need(s) # {}
             /\ Exit(s, "generr", {}, FALSE, ready)
             /\ genOpen' = [genOpen EXCEPT ![s] = TRUE]
  /\ UNCHANGED <<extVars, ntop, kind, queue, leafLocks, inbox, seen, cbs, deps, taskGroups,
                 lockWaiters, stopPath, started>>

\* --------------------------------------------------------------- the bodies
BodyResults == {"T", "F", "raise"}

\* a faulty end of the action: an exception leaves the locks held
CompleteKeepLocks(s, r, base) ==
  Exit(s, r, IF r = "raise" THEN {} ELSE Need(s), r # "raise", base)

\* the action of leaf s ends with r: a returned value is traced and returned,
\* an exception is logged and re-raised; the locks are released either way
Complete(s, r, base) ==
  Exit(s, r, Need(s), r # "raise", base)

\* AbstractBaseStep.execute_step calls execute(): the action either returns
\* or raises without suspending, or suspends on something external
LeafExecute(s) ==
  /\ cur = <<s>> /\ pc[s] = "enter" /\ kind[s] = "leaf"
  /\ started' = [started EXCEPT ![s] = TRUE]
  /\ \/ /\ \E r \in BodyResults : Complete(s, r, ready)
     \/ /\ pc' = [pc EXCEPT ![s] = "body"]
        /\ susp' = [susp EXCEPT ![s] = TRUE]
        /\ cur' = <<>>
        /\ UNCHANGED <<res, locked, woken, held, ready, tracer, hist, cancelReq>>
  /\ UNCHANGED <<extVars, ntop, kind, queue, leafLocks, inbox, seen, cbs, deps, taskGroups,
                 lockWaiters, stopPath, genOpen>>

\* the suspended action of leaf s resumes and ends
LeafResume(s) ==
  /\ cur = <<s>> /\ pc[s] = "body"
  /\ \E r \in BodyResults : Complete(s, r, ready)
  /\ UNCHANGED <<extVars, ntop, kind, queue, leafLocks, inbox, seen, cbs, deps, taskGroups,
                 lockWaiters, stopPath, genOpen, started>>

\* AbstractStep.execute / Repeat.execute: schedule every child as a task,
\* registered in the step's own task groups
CompSchedule(s) ==
  /\ cur = <<s>> /\ pc[s] = "enter" /\ kind[s] # "leaf"
  /\ started' = [started EXCEPT ![s] = TRUE]
  /\ Schedule(s, taskGroups[s])
  /\ UNCHANGED <<extVars, ntop, kind, queue, leafLocks, res, cancelReq, locked, lockWaiters,
                 woken, held, stopPath, genOpen, tracer, hist>>

\* AbstractStep.execute / Repeat.execute: await the children in completion
\* order; return False at the first False, True after the last result; an
\* exception of a child propagates.  No child is cancelled.
AwaitChildren(s) ==
  /\ cur = <<s>> /\ pc[s] = "kids" /\ s # Exec
  /\ IF inbox[s] = <<>>
     THEN /\ susp' = [susp EXCEPT ![s] = TRUE]
          /\ cur' = <<>>
          /\ UNCHANGED <<pc, res, inbox, seen, ready, locked, woken, held,
                         tracer, hist, cancelReq>>
     ELSE LET f == Head(inbox[s]) IN
       CASE res[f] = "T" /\ seen[s] + 1 < Len(AllTasks(taskGroups[s])) ->
              /\ inbox' = [inbox EXCEPT ![s] = Tail(@)]
              /\ seen' = [seen EXCEPT ![s] = @ + 1]
              /\ UNCHANGED <<pc, res, ready, locked, woken, held, tracer, hist,
                             cancelReq, susp, cur>>
         [] res[f] = "T" /\ seen[s] + 1 = Len(AllTasks(taskGroups[s])) ->
              /\ Exit(s, "T", Need(s), TRUE, ready)
              /\ UNCHANGED <<inbox, seen>>
         [] res[f] = "F" ->
              /\ Exit(s, "F", Need(s), TRUE, ready)
              /\ UNCHANGED <<inbox, seen>>
         [] OTHER ->
              /\ Exit(s, res[f], Need(s), FALSE, ready)
              /\ UNCHANGED <<inbox, seen>>
  /\ UNCHANGED <<extVars, ntop, kind, queue, leafLocks, cbs, deps, taskGroups, lockWaiters,
                 stopPath, genOpen, started>>

\* ----------------------------------------------------------- the environment
\* what the action of leaf s was waiting for happens
BodyDone(s) ==
  /\ cur = <<>> /\ pc[s] = "body" /\ susp[s]
  /\ susp' = [susp EXCEPT ![s] = FALSE]
  /\ ready' = Append(ready, HStep(s))
  /\ UNCHANGED <<extVars, ntop, kind, queue, leafLocks, cur, pc, res, cancelReq, inbox, seen,
                 cbs, deps, taskGroups, locked, lockWaiters, woken, held,
                 stopPath, genOpen, started, tracer, hist>>

\* asyncio.sleep(0.5) of the lock poll of s is over
TimerFire(s) ==
  /\ cur = <<>> /\ pc[s] = "poll" /\ susp[s]
  /\ susp' = [susp EXCEPT ![s] = FALSE]
  /\ ready' = Append(ready, HStep(s))
  /\ UNCHANGED <<extVars, ntop, kind, queue, leafLocks, cur, pc, res, cancelReq, inbox, seen,
                 cbs, deps, taskGroups, locked, lockWaiters, woken, held,
                 stopPath, genOpen, started, tracer, hist>>

\* the abandoned await_requirements generator of s is finalised: GeneratorExit
\* at `yield True` runs the finally, which releases the locks
Finalize(s) ==
  /\ cur = <<>> /\ genOpen[s]
  /\ genOpen' = [genOpen EXCEPT ![s] = FALSE]
  /\ locked' = [l \in Locks |-> IF l \in Need(s) THEN FALSE ELSE locked[l]]
  /\ woken' = [l \in Locks |->
                 IF l \in Need(s) /\ lockWaiters[l] # <<>> THEN TRUE ELSE woken[l]]
  /\ held' = [held EXCEPT ![s] = @ \ Need(s)]
  /\ ready' = ready \o WakeHandles(Need(s))
  /\ hist' = [hist EXCEPT !.everRel[s] = @ \cup Need(s)]
  /\ UNCHANGED <<extVars, ntop, kind, queue, leafLocks, cur, pc, res, susp, cancelReq, inbox,
                 seen, cbs, deps, taskGroups, lockWaiters, stopPath,
                 started, tracer>>

\* --------------------------------------------------------------------- Next
Next ==
  \/ RunCb
  \/ RunAcq
  \/ RunAcqWake
  \/ Resume
  \/ Cancelled
  \/ ExecStart
  \/ ExecAwait
  \/ \E s \in Steps : StartStep(s)
  \/ \E s \in Steps : AwaitDeps(s)
  \/ \E s \in Steps : AcquireLocks(s)
  \/ \E s \in Steps : AwaitAcquired(s)
  \/ \E s \in Steps : Acquired(s)
  \/ \E s \in Steps : LeafExecute(s)
  \/ \E s \in Steps : LeafResume(s)
  \/ \E s \in Steps : CompSchedule(s)
  \/ \E s \in Steps : AwaitChildren(s)
  \/ \E s \in Steps : BodyDone(s)
  \/ \E s \in Steps : TimerFire(s)
  \/ \E s \in Steps : Finalize(s)

Spec == Init /\ [][Next]_vars

TypeOK ==
  /\ Len(cur) <= 1
  /\ \A l \in Locks : locked[l] => Cardinality({s \in Steps : l \in held[s]}) = 1

\* =================================================== Repeat, step by step
\* the task of child i in batch b
RTask(b, i) == <<b, i>>
RTasks == Batches \X Children

RRes(t) == rres[t[1]][t[2]]

\* scheduled before u (create_task order)
REarlier(t, u) == t[1] < u[1] \/ (t[1] = u[1] /\ t[2] < u[2])

RFinished(t) == RRes(t) \in {"T", "F", "DONE", "S"}

\* falsy results: False from the body, or False because a dependency stopped
RFalsy(t) == RRes(t) \in {"F", "S"}

\* iter_bindings, a loop variable without matches: the warning is formatted
\* with s[0] and s[1] of every variable's list of predicates, which raises
\* IndexError for a list of one
IterBindingsRaises(cfg) == cfg.hasLoopVars /\ cfg.matches = 0 /\ cfg.singleSpec

\* iter_bindings: there is a b-th binding (the counter zipped with the matches
\* of the loop variables; no match at all: no binding)
HasBatch(cfg, b) ==
  /\ (cfg.hasRepeats => b <= cfg.repeats)
  /\ (cfg.hasLoopVars => b <= cfg.matches)

\* a Repeat property that misreads `repeats`: 0 counts as no bound
HasBatchZeroUnbounded(cfg, b) ==
  /\ ((cfg.hasRepeats /\ cfg.repeats # 0) => b <= cfg.repeats)
  /\ (cfg.hasLoopVars => b <= cfg.matches)

\* a faulty uses_measure: only an AbstractMonitorStep in first place counts
UsesMeasureFirstOnly(cfg, kinds) == HasBatch(cfg, 1) /\ kinds[1] = "monitor"

\* Repeat.sanity_checks: any monitor among self.steps, the children of the
\* first binding (get_steps with truncate=True)
UsesMeasure(cfg, kinds) ==
  HasBatch(cfg, 1) /\ \E i \in Children : kinds[i] = "monitor"

\* the conditions of the three SanityCheck objects; `repeats` and
\* `loop_variables` are tested for truth, so repeats = 0 counts as unset
SanityConditions(cfg, kinds) ==
  LET repeatsSet == cfg.hasRepeats /\ cfg.repeats # 0
  IN <<~(repeatsSet /\ cfg.hasLoopVars),
       ~(UsesMeasure(cfg, kinds) /\ repeatsSet),
       ~(UsesMeasure(cfg, kinds) /\ cfg.hasLoopVars)>>

\* SanityCheck.run: raises unless the condition holds
SanityCheckRun(cond) == IF cond THEN "ok" ELSE "raise"

\* Repeat.final_sanity_check
FinalSanityCheck(cfg, kinds) ==
  IF \E k \in 1..3 : SanityCheckRun(SanityConditions(cfg, kinds)[k]) = "raise"
  THEN "raise" ELSE "ok"

\* monitor_step_count of a batch
MonitorStepCount == Cardinality({i \in Children : rkind[i] = "monitor"})

\* id(step) of the step scheduled as child i of batch b
ObjId(b, i) == IF rcfg.fresh THEN <<b, i>> ELSE <<0, i>>

\* a faulty selection of the tasks to await: every task scheduled so far
BatchTasksAll(b) == {t \in RTasks : t[1] <= b}

\* the tasks of task_groups whose step has its id in batch_ids
BatchTasks(b) ==
  {t \in RTasks : t[1] <= b /\ \E i \in Children : ObjId(t[1], t[2]) = ObjId(b, i)}

\* what the body of a child may return
ChildResults(k) == IF k = "plain" THEN {"T", "F"} ELSE {"T", "F", "DONE"}

\* do_sanity_check, called for every step by perform_sanity_checks while the
\* procedure is prepared for execution
RPrepare ==
  /\ rpc = "new"
  /\ IF IterBindingsRaises(rcfg)
     THEN \* sanity_checks reads self.steps first: get_steps, iter_bindings
          rpc' = "done" /\ rexit' = "indexerror"
     ELSE IF FinalSanityCheck(rcfg, rkind) = "raise"
     THEN rpc' = "done" /\ rexit' = "raise"
     ELSE rpc' = "prepared" /\ rexit' = rexit
  /\ UNCHANGED <<rkind, rcfg, rbatch, rres, rseen, rcount>>
  /\ UNCHANGED <<coreVars, dynVars, asyncVars, xdlVars, rerunVars, cacheVars, bindVars, alockVars>>

\* Repeat.execute up to the batch loop
RExecute ==
  /\ rpc = "prepared"
  /\ rpc' = "sched"
  /\ rbatch' = 1
  /\ UNCHANGED <<rkind, rcfg, rres, rseen, rcount, rexit>>
  /\ UNCHANGED <<coreVars, dynVars, asyncVars, xdlVars, rerunVars, cacheVars, bindVars, alockVars>>

\* one round of the batch loop: a task is created for every child; with a
\* monitor among them the tasks of the batch are awaited at once
RSchedule ==
  /\ rpc = "sched" /\ rbatch <= MaxBatches /\ HasBatch(rcfg, rbatch)
  /\ rres' = [rres EXCEPT ![rbatch] = [i \in Children |-> "pending"]]
  /\ IF MonitorStepCount > 0
     THEN rpc' = "await" /\ rbatch' = rbatch
     ELSE rpc' = rpc /\ rbatch' = rbatch + 1
  /\ rseen' = {}
  /\ rcount' = 0
  /\ UNCHANGED <<rkind, rcfg, rexit>>
  /\ UNCHANGED <<coreVars, dynVars, asyncVars, xdlVars, rerunVars, cacheVars, bindVars, alockVars>>

\* the batches are exhausted: without any task return True, else await them all
REndBatches ==
  /\ rpc = "sched" /\ ~HasBatch(rcfg, rbatch)
  /\ IF rbatch = 1
     THEN rpc' = "done" /\ rexit' = "end"
     ELSE rpc' = "final" /\ rexit' = rexit
  /\ rseen' = {}
  /\ UNCHANGED <<rkind, rcfg, rbatch, rres, rcount>>
  /\ UNCHANGED <<coreVars, dynVars, asyncVars, xdlVars, rerunVars, cacheVars, bindVars, alockVars>>

\* execute_step of a child (unqueued, so it depends on every earlier task):
\* False without executing if a dependency returned False, else its body runs
RChildRun(t) ==
  /\ rpc \in {"await", "final", "done"}
  /\ RRes(t) = "pending"
  /\ \A u \in RTasks : REarlier(u, t) => RFinished(u)
  /\ \E r \in ChildResults(rkind[t[2]]) :
        rres' = [rres EXCEPT ![t[1]][t[2]] =
                   IF \E u \in RTasks : REarlier(u, t) /\ RFalsy(u)
                   THEN "S" ELSE r]
  /\ UNCHANGED <<rkind, rcfg, rpc, rbatch, rseen, rcount, rexit>>
  /\ UNCHANGED <<coreVars, dynVars, asyncVars, xdlVars, rerunVars, cacheVars, bindVars, alockVars>>

\* the next result of as_completed over the tasks of the batch: return False
\* on a falsy result, count a DONE; after the last one leave the loop if
\* monitor_done_count == monitor_step_count, else go on with the next batch
RAwaitBatch(t) ==
  /\ rpc = "await"
  /\ t \in BatchTasks(rbatch) \ rseen
  /\ RFinished(t)
  /\ LET n == IF RRes(t) = "DONE" THEN rcount + 1 ELSE rcount
         last == rseen \cup {t} = BatchTasks(rbatch)
     IN IF RFalsy(t)
        THEN /\ rpc' = "done" /\ rexit' = "stop"
             /\ UNCHANGED <<rbatch, rseen, rcount>>
        ELSE /\ rseen' = rseen \cup {t}
             /\ rcount' = n
             /\ IF ~last THEN UNCHANGED <<rpc, rbatch, rexit>>
                ELSE IF n = MonitorStepCount
                     THEN rpc' = "done" /\ rexit' = "monitor" /\ rbatch' = rbatch
                     ELSE rpc' = "sched" /\ rbatch' = rbatch + 1 /\ rexit' = rexit
  /\ UNCHANGED <<rkind, rcfg, rres>>
  /\ UNCHANGED <<coreVars, dynVars, asyncVars, xdlVars, rerunVars, cacheVars, bindVars, alockVars>>

\* the next result of the final as_completed over all scheduled tasks
RAwaitAll(t) ==
  /\ rpc = "final"
  /\ RRes(t) # "unborn" /\ t \notin rseen
  /\ RFinished(t)
  /\ IF RFalsy(t)
     THEN rpc' = "done" /\ rexit' = "stop" /\ rseen' = rseen
     ELSE /\ rseen' = rseen \cup {t}
          /\ IF rseen' = {u \in RTasks : RRes(u) # "unborn"}
             THEN rpc' = "done" /\ rexit' = "end"
             ELSE rpc' = rpc /\ rexit' = rexit
  /\ UNCHANGED <<rkind, rcfg, rbatch, rres, rcount>>
  /\ UNCHANGED <<coreVars, dynVars, asyncVars, xdlVars, rerunVars, cacheVars, bindVars, alockVars>>

InitRepeat ==
  /\ CoreIdle /\ DynIdle /\ AsyncIdle /\ XdlIdle /\ RerunIdle /\ CacheIdle /\ BindIdle /\ AlockIdle
  /\ rkind \in [Children -> ChildKinds]
  /\ rcfg \in RepeatConfigs
  /\ rpc = "new"
  /\ rbatch = 0
  /\ rres = NoTasks
  /\ rseen = {}
  /\ rcount = 0
  /\ rexit = "none"

NextRepeat ==
  \/ RPrepare
  \/ RExecute
  \/ RSchedule
  \/ REndBatches
  \/ \E t \in RTasks : RChildRun(t)
  \/ \E t \in RTasks : RAwaitBatch(t)
  \/ \E t \in RTasks : RAwaitAll(t)

SpecRepeat == InitRepeat /\ [][NextRepeat]_vars

\* the body of a child whose monitor leaf reports DONE when it runs
RChildRunDone(t) ==
  /\ RChildRun(t)
  /\ rkind[t[2]] = "monitor" => rres'[t[1]][t[2]] \in {"DONE", "S"}

NextRepeatDone ==
  \/ RPrepare
  \/ RExecute
  \/ RSchedule
  \/ REndBatches
  \/ \E t \in RTasks : RChildRunDone(t)
  \/ \E t \in RTasks : RAwaitBatch(t)
  \/ \E t \in RTasks : RAwaitAll(t)

\* the event loop runs a task that can run, every body ends and every
\* monitor leaf reports DONE
SpecRepeatFair == InitRepeat /\ [][NextRepeatDone]_vars /\ WF_vars(NextRepeatDone)

\* ========================================== AbstractDynamicStep, step by step
\* an entry of dlog
Ev(e, ph, i, n, k, r) == [e |-> e, ph |-> ph, i |-> i, n |-> n, k |-> k, r |-> r]

\* what execute_step of a block step may do: execute of an asynchronous step
\* starts its thread and returns True; another step returns True or False,
\* or raises
StepResults(k) == IF k = "async" THEN {"T"} ELSE {"T", "F", "raise"}

\* a faulty _post_finish: the first asynchronous step is left alone
AsyncToKillButFirst(as) == IF as = <<>> THEN {} ELSE SeqToSet(Tail(as))

\* _post_finish: the steps whose kill() is called
AsyncToKill(as) == SeqToSet(as)

\* a faulty test of the simulation flag: the lifecycle runs in simulation too
SimulationBranchNever(sim) == FALSE

\* execute: `platform_controller.simulation is True`
SimulationBranch(sim) == sim

\* AbstractDynamicStep.prepare_for_execution: start_block = on_start()
DPrepare ==
  /\ dpc = "new"
  /\ dpc' = "prepared"
  /\ dblock' = [set |-> TRUE, b |-> dcfg.start]
  /\ UNCHANGED <<dcfg, dsim, dstarted, dphase, dtodo, dlog, dasync, dkilled,
                 dret, dncont, druns, dresumed>>
  /\ UNCHANGED <<coreVars, repeatVars, asyncVars, xdlVars, rerunVars, cacheVars, bindVars, alockVars>>

\* execute up to its first block: XDLError without a start block, the
\* simulation steps if the controller simulates, else the start block
DExecute ==
  /\ dpc \in {"new", "prepared", "done"} /\ druns < MaxRuns
  /\ druns' = druns + 1
  /\ dstarted' = TRUE
  /\ dncont' = 0
  /\ IF ~dblock.set
     THEN /\ dpc' = "done" /\ dret' = "raise" /\ dlog' = <<>>
          /\ UNCHANGED <<dphase, dtodo>>
     ELSE /\ dpc' = "run" /\ dret' = "none"
          /\ IF SimulationBranch(dsim)
             THEN dphase' = "sim" /\ dtodo' = Numbered(dcfg.sim)
             ELSE dphase' = "start" /\ dtodo' = Numbered(dblock.b)
          /\ dlog' = <<Ev("execute", dphase', 0, Len(dtodo'), "", "")>>
  /\ UNCHANGED <<dcfg, dsim, dblock, dasync, dkilled, dresumed>>
  /\ UNCHANGED <<coreVars, repeatVars, asyncVars, xdlVars, rerunVars, cacheVars, bindVars, alockVars>>

\* execute_block: the next step of the block; its result is dropped, an
\* exception ends execute, an asynchronous step is remembered
DStep ==
  /\ dpc = "run" /\ dtodo # <<>>
  /\ \E r \in StepResults(Head(dtodo).k) :
       /\ dlog' = Append(dlog, Ev("step", dphase, Head(dtodo).i, Head(dtodo).n,
                                  Head(dtodo).k, r))
       /\ IF r = "raise"
          THEN dpc' = "done" /\ dret' = "raise" /\ dtodo' = <<>> /\ dasync' = dasync
          ELSE /\ dtodo' = Tail(dtodo)
               /\ dasync' = IF Head(dtodo).k = "async"
                            THEN Append(dasync, <<druns, Len(dlog) + 1>>)
                            ELSE dasync
               /\ UNCHANGED <<dpc, dret>>
  /\ UNCHANGED <<dcfg, dsim, dblock, dstarted, dphase, dkilled, dncont, druns,
                 dresumed>>
  /\ UNCHANGED <<coreVars, repeatVars, asyncVars, xdlVars, rerunVars, cacheVars, bindVars, alockVars>>

\* after the start block or a continue block: on_continue() returns a block;
\* an empty one ends the loop, and on_finish() gives the finish block
DContinue ==
  /\ dpc = "run" /\ dtodo = <<>> /\ dphase \in {"start", "continue"}
  /\ dncont < MaxContinue
  /\ \E b \in DBlocks :
       /\ dncont' = dncont + 1
       /\ IF b # <<>>
          THEN /\ dlog' = Append(dlog, Ev("on_continue", "", 0, Len(b), "", "block"))
               /\ dtodo' = Numbered(b) /\ dphase' = "continue"
          ELSE /\ dlog' = dlog \o <<Ev("on_continue", "", 0, 0, "", "empty"),
                                    Ev("on_finish", "", 0, Len(dcfg.fin), "", "")>>
               /\ dtodo' = Numbered(dcfg.fin) /\ dphase' = "finish"
  /\ UNCHANGED <<dcfg, dsim, dblock, dstarted, dpc, dasync, dkilled, dret, druns,
                 dresumed>>
  /\ UNCHANGED <<coreVars, repeatVars, asyncVars, xdlVars, rerunVars, cacheVars, bindVars, alockVars>>

\* after the finish block: _post_finish kills the asynchronous steps, and
\* execute returns True
DPostFinish ==
  /\ dpc = "run" /\ dtodo = <<>> /\ dphase = "finish"
  /\ dkilled' = dkilled \cup AsyncToKill(dasync)
  /\ dlog' = Append(dlog, Ev("kill", "", 0, 0, "", ""))
  /\ dpc' = "done" /\ dret' = "T"
  /\ UNCHANGED <<dcfg, dsim, dblock, dstarted, dphase, dtodo, dasync, dncont,
                 druns, dresumed>>
  /\ UNCHANGED <<coreVars, repeatVars, asyncVars, xdlVars, rerunVars, cacheVars, bindVars, alockVars>>

\* after simulate(): execute returns True
DSimEnd ==
  /\ dpc = "run" /\ dtodo = <<>> /\ dphase = "sim"
  /\ dpc' = "done" /\ dret' = "T"
  /\ UNCHANGED <<dcfg, dsim, dblock, dstarted, dphase, dtodo, dlog, dasync,
                 dkilled, dncont, druns, dresumed>>
  /\ UNCHANGED <<coreVars, repeatVars, asyncVars, xdlVars, rerunVars, cacheVars, bindVars, alockVars>>

\* resume: started = False, start_block = [], and a call of execute whose
\* coroutine is dropped without being awaited or scheduled
DResume ==
  /\ dpc \in {"prepared", "done"} /\ ~dresumed
  /\ dstarted' = FALSE
  /\ dblock' = [set |-> TRUE, b |-> <<>>]
  /\ dresumed' = TRUE
  /\ UNCHANGED <<dcfg, dsim, dpc, dphase, dtodo, dlog, dasync, dkilled, dret,
                 dncont, druns>>
  /\ UNCHANGED <<coreVars, repeatVars, asyncVars, xdlVars, rerunVars, cacheVars, bindVars, alockVars>>

InitDyn ==
  /\ CoreIdle /\ RepeatIdle /\ AsyncIdle /\ XdlIdle /\ RerunIdle /\ CacheIdle /\ BindIdle /\ AlockIdle
  /\ dcfg \in [start : DBlocks, fin : DBlocks, sim : DBlocks]
  /\ dsim \in BOOLEAN
  /\ dblock = [set |-> FALSE, b |-> <<>>]
  /\ dstarted = FALSE
  /\ dpc = "new"
  /\ dphase = "none"
  /\ dtodo = <<>>
  /\ dlog = <<>>
  /\ dasync = <<>>
  /\ dkilled = {}
  /\ dret = "none"
  /\ dncont = 0
  /\ druns = 0
  /\ dresumed = FALSE

NextDyn ==
  \/ DPrepare
  \/ DExecute
  \/ DStep
  \/ DContinue
  \/ DPostFinish
  \/ DSimEnd
  \/ DResume

\* the event loop runs a task that can run
SpecDyn == InitDyn /\ [][NextDyn]_vars /\ WF_vars(NextDyn)

\* ------------------------------------------------- Async and Await steps
\* S in ascending order: the order of the procedure's list of steps
RECURSIVE AscSeq(_)
AscSeq(S) ==
  IF S = {} THEN <<>>
  ELSE LET m == CHOOSE x \in S : \A y \in S : x <= y
       IN  <<m>> \o AscSeq(S \ {m})

\* every Async step of the list, whatever its pid
AwaitMatchesAnyPid(p) == {a \in Asyncs : atop[a]}

\* the Async steps of the procedure's list of steps whose pid is p
AwaitMatches(p) == {a \in Asyncs : atop[a] /\ apid[a] = p}

\* the Async steps the loop of Await.execute waits for, in order: none when
\* the context has no procedure or the pid is empty
AwaitList(p) == IF wxdl /\ p # "" THEN AscSeq(AwaitMatches(p)) ELSE <<>>

\* The loop of Await.execute from the Async step at the head of todo up to
\* its next sleep or its end: a finished step is reset and the loop moves on
RECURSIVE AwaitScan(_, _)
AwaitScan(todo, fin) ==
  IF todo = <<>> \/ ~fin[Head(todo)] THEN [todo |-> todo, fin |-> fin]
  ELSE AwaitScan(Tail(todo), [fin EXCEPT ![Head(todo)] = FALSE])

\* what a child's execute gives the body: a true value, a false one, an error
ChildOutcomes == {"true", "false", "raise"}

\* the body stops only when a child gives a false value
BreakOutStopOnly(keep, kill) == ~keep

\* the body leaves its loop after a child: the child gave a false value or
\* kill() was called
BreakOut(keep, kill) == ~keep \/ kill

\* the calls of execute counted in runs for the Async steps in S
RECURSIVE RunsOf(_, _)
RunsOf(runs, S) ==
  IF S = {} THEN 0
  ELSE LET a == CHOOSE x \in S : TRUE IN runs[a] + RunsOf(runs, S \ {a})

\* AbstractAsyncStep.execute: the body starts on a thread of its own and
\* execute returns; finished and _should_end keep the values they have.
\* Followed when no thread of this step is running.
AExecute(a) ==
  /\ apc[a] = "idle"
  /\ RunsOf(aruns, Asyncs) < MaxAsyncRuns
  /\ aruns' = [aruns EXCEPT ![a] = @ + 1]
  /\ apc' = [apc EXCEPT ![a] = "child"]
  /\ ai' = [ai EXCEPT ![a] = 1]
  /\ aend' = [aend EXCEPT ![a] = "none"]
  /\ acalls' = [acalls EXCEPT ![a] = 0]
  /\ aseen' = [aseen EXCEPT ![a] = FALSE]
  /\ wsince' = IF wpc = "wait" THEN wsince \cup {a} ELSE wsince
  /\ UNCHANGED <<apid, atop, alen, ahascb, afinished, ashould_end, wxdl, wpid,
                 wpc, wtodo, wruns>>
  /\ UNCHANGED <<coreVars, repeatVars, dynVars, xdlVars, rerunVars, cacheVars, bindVars, alockVars>>

\* Async.async_execute: the child the body is executing ends, and the body
\* goes on to the test after it, to the next child or to its own end
AChild(a) ==
  /\ apc[a] = "child"
  /\ \E r \in ChildOutcomes :
       LET raised == r = "raise"
           stop == ~raised /\ BreakOut(r = "true", ashould_end[a])
           last == ai[a] = alen[a]
       IN
       /\ aseen' = [aseen EXCEPT ![a] = @ \/ (r = "true" /\ ashould_end[a])]
       /\ afinished' = [afinished EXCEPT
                          ![a] = IF ~raised /\ (stop \/ last) THEN TRUE ELSE @]
       /\ apc' = [apc EXCEPT
                    ![a] = IF raised \/ stop THEN "idle"
                           ELSE IF ~last THEN "child"
                           ELSE IF ahascb[a] THEN "callback"
                           ELSE "idle"]
       /\ ai' = [ai EXCEPT
                   ![a] = IF ~raised /\ ~stop /\ ~last THEN @ + 1 ELSE @]
       /\ aend' = [aend EXCEPT
                     ![a] = IF raised THEN "raised"
                            ELSE IF stop /\ r = "false" THEN "stopped"
                            ELSE IF stop THEN "killed"
                            ELSE IF last /\ ~ahascb[a] THEN "completed"
                            ELSE @]
  /\ UNCHANGED <<apid, atop, alen, ahascb, ashould_end, acalls, aruns, wxdl,
                 wpid, wpc, wtodo, wruns, wsince>>
  /\ UNCHANGED <<coreVars, repeatVars, dynVars, xdlVars, rerunVars, cacheVars, bindVars, alockVars>>

\* Async.async_execute, after the loop: on_finish is called and the body ends
AOnFinish(a) ==
  /\ apc[a] = "callback"
  /\ acalls' = [acalls EXCEPT ![a] = @ + 1]
  /\ apc' = [apc EXCEPT ![a] = "idle"]
  /\ aend' = [aend EXCEPT ![a] = "completed"]
  /\ UNCHANGED <<apid, atop, alen, ahascb, ai, afinished, ashould_end, aseen,
                 aruns, wxdl, wpid, wpc, wtodo, wruns, wsince>>
  /\ UNCHANGED <<coreVars, repeatVars, dynVars, xdlVars, rerunVars, cacheVars, bindVars, alockVars>>

\* AbstractAsyncStep.kill
AKill(a) ==
  /\ apc[a] # "off"
  /\ ~ashould_end[a]
  /\ ashould_end' = [ashould_end EXCEPT ![a] = TRUE]
  /\ UNCHANGED <<apid, atop, alen, ahascb, apc, ai, afinished, aend, acalls,
                 aseen, aruns, wxdl, wpid, wpc, wtodo, wruns, wsince>>
  /\ UNCHANGED <<coreVars, repeatVars, dynVars, xdlVars, rerunVars, cacheVars, bindVars, alockVars>>

\* Await.execute of an Await step with pid p, up to its first sleep or its
\* return
AwaitExecute(p) ==
  /\ wpc \in {"idle", "done"}
  /\ wruns < MaxAwaits
  /\ wruns' = wruns + 1
  /\ wpid' = p
  /\ wsince' = {}
  /\ LET sc == AwaitScan(AwaitList(p), afinished)
     IN  /\ wtodo' = sc.todo
         /\ afinished' = sc.fin
         /\ wpc' = IF sc.todo = <<>> THEN "done" ELSE "wait"
  /\ UNCHANGED <<apid, atop, alen, ahascb, apc, ai, ashould_end, aend, acalls,
                 aseen, aruns, wxdl>>
  /\ UNCHANGED <<coreVars, repeatVars, dynVars, xdlVars, rerunVars, cacheVars, bindVars, alockVars>>

\* Await.execute wakes from its sleep and finds the flag set
AwaitPoll ==
  /\ wpc = "wait"
  /\ afinished[Head(wtodo)]
  /\ LET sc == AwaitScan(wtodo, afinished)
     IN  /\ wtodo' = sc.todo
         /\ afinished' = sc.fin
         /\ wpc' = IF sc.todo = <<>> THEN "done" ELSE "wait"
  /\ UNCHANGED <<apid, atop, alen, ahascb, apc, ai, ashould_end, aend, acalls,
                 aseen, aruns, wxdl, wpid, wruns, wsince>>
  /\ UNCHANGED <<coreVars, repeatVars, dynVars, xdlVars, rerunVars, cacheVars, bindVars, alockVars>>

\* Async.__init__ has run for every Async step: at least one child, finished
\* and _should_end false
InitAsync ==
  /\ CoreIdle /\ RepeatIdle /\ DynIdle /\ XdlIdle /\ RerunIdle /\ CacheIdle /\ BindIdle /\ AlockIdle
  /\ apid \in [Asyncs -> APids]
  /\ atop \in [Asyncs -> BOOLEAN]
  /\ alen \in [Asyncs -> 1..MaxAsyncChildren]
  /\ ahascb \in [Asyncs -> BOOLEAN]
  /\ apc = [a \in Asyncs |-> "idle"]
  /\ ai = [a \in Asyncs |-> 0]
  /\ afinished = [a \in Asyncs |-> FALSE]
  /\ ashould_end = [a \in Asyncs |-> FALSE]
  /\ aend = [a \in Asyncs |-> "none"]
  /\ acalls = [a \in Asyncs |-> 0]
  /\ aseen = [a \in Asyncs |-> FALSE]
  /\ aruns = [a \in Asyncs |-> 0]
  /\ wxdl \in BOOLEAN
  /\ wpid = ""
  /\ wpc = "idle"
  /\ wtodo = <<>>
  /\ wruns = 0
  /\ wsince = {}

NextAsync ==
  \/ \E a \in Asyncs : AExecute(a)
  \/ \E a \in Asyncs : AChild(a)
  \/ \E a \in Asyncs : AOnFinish(a)
  \/ \E a \in Asyncs : AKill(a)
  \/ \E p \in WPids : AwaitExecute(p)
  \/ AwaitPoll

SpecAsync == InitAsync /\ [][NextAsync]_vars

\* a procedure that executes each of its Async steps once at most
AExecuteOnce(a) == aruns[a] = 0 /\ AExecute(a)

NextAsyncOnce ==
  \/ \E a \in Asyncs : AExecuteOnce(a)
  \/ \E a \in Asyncs : AChild(a)
  \/ \E a \in Asyncs : AOnFinish(a)
  \/ \E a \in Asyncs : AKill(a)
  \/ \E p \in WPids : AwaitExecute(p)
  \/ AwaitPoll

\* the thread of an Async step runs its body to the end, and the event loop
\* wakes Await.execute from its sleep
SpecAsyncFair ==
  /\ InitAsync /\ [][NextAsyncOnce]_vars
  /\ WF_vars(AwaitPoll)
  /\ \A a \in Asyncs : WF_vars(AChild(a)) /\ WF_vars(AOnFinish(a))

\* ------------------------------------------- compile, load and execute
\* what the call of XDL.execute is given as `step`
StepArgs == {"none", "valid", "invalid"}

\* executor.prepare_for_execution leaves _prepared_for_execution set: the
\* abstract class sets another attribute, _prepared; a platform's executor
\* sets the flag as the class documentation asks
PreparedFlag(impl) == impl = "platform"

\* the test of the graph hashes lets every call through
HashCheckedLenient(g, hasGraph) == "set"

\* AbstractXDLExecutor.execute up to its loop: the flag after the test of
\* the graph hashes ("raise" when they differ)
HashChecked(g, hasGraph) ==
  IF ~eflag /\ xcompiled
  THEN IF hasGraph
       THEN IF xhash = GraphHash(g) THEN "set" ELSE "raise"
       ELSE "set"
  ELSE IF eflag THEN "set" ELSE "unset"

\* AbstractXDLExecutor.execute run to its end with a controller of graph g
\* (hasGraph: the controller has the attribute graph): error, flag, tasks
\* and the graphs leaf actions ran on
ExecutorRun(g, hasGraph) ==
  LET hc == HashChecked(g, hasGraph)
  IN  [err |-> IF hc = "raise" THEN "DifferentGraph"
               ELSE IF hc = "unset" THEN "BeforeCompilation" ELSE "none",
       flag |-> IF hc = "set" THEN TRUE ELSE eflag,
       tasks |-> IF hc = "set" THEN XNumSteps ELSE 0,
       ran |-> IF hc = "set"
               THEN {[g |-> IF hasGraph THEN g ELSE "none", h |-> xhash]}
               ELSE {}]

\* a new XDL object never counts as compiled
CompiledAtInitNever(h) == FALSE

\* XDL.__init__: compiled is set when the loaded file gave a graph hash
CompiledAtInit(h) == h # "none"

\* XDL.__init__: a new XDL object, from a .xdl file (h is "none") or from a
\* compiled plan with graph hash h; its executor is new too
XNew(impl, h) ==
  /\ xlast.op # "off"
  /\ xcalls < MaxCalls
  /\ xcalls' = xcalls + 1
  /\ eimpl' = impl
  /\ xhash' = h
  /\ xcompiled' = CompiledAtInit(h)
  /\ eflag' = FALSE
  /\ estray' = FALSE
  /\ egraph' = "none"
  /\ xlast' = Call("new", "none", TRUE, "none", FALSE)
  /\ xerr' = "none"
  /\ xprep' = 0
  /\ UNCHANGED <<xtasks, xpending, xran, xdropped>>
  /\ UNCHANGED <<coreVars, repeatVars, dynVars, asyncVars, rerunVars, cacheVars, bindVars, alockVars>>

\* XDL.prepare_for_execution with graph g; equivOk: equiv_amount and
\* equiv_reference are both given or both left out and the reference is a
\* reagent; sane: the sanity checks pass
XPrepare(g, equivOk, sane) ==
  /\ xlast.op # "off"
  /\ xcalls < MaxCalls
  /\ xcalls' = xcalls + 1
  /\ xlast' = Call("prepare", g, TRUE, "none", FALSE)
  /\ IF xcompiled
     THEN /\ xerr' = "DoubleCompilation"
          /\ UNCHANGED <<xcompiled, xhash, eflag, estray, egraph, xprep>>
     ELSE IF ~equivOk
     THEN /\ xerr' = "InvalidEquivalents"
          /\ UNCHANGED <<xcompiled, xhash, eflag, estray, egraph, xprep>>
     ELSE IF ~sane
     THEN /\ xerr' = "SanityCheck"
          /\ egraph' = g
          /\ xprep' = xprep + 1
          /\ UNCHANGED <<xcompiled, xhash, eflag, estray>>
     ELSE /\ xerr' = "none"
          /\ egraph' = g
          /\ xprep' = xprep + 1
          /\ estray' = (eimpl = "abstract" \/ estray)
          /\ eflag' = (eflag \/ PreparedFlag(eimpl))
          /\ xcompiled' = eflag'
          /\ xhash' = IF eflag' THEN GraphHash(g) ELSE xhash
  /\ UNCHANGED <<eimpl, xtasks, xpending, xran, xdropped>>
  /\ UNCHANGED <<coreVars, repeatVars, dynVars, asyncVars, rerunVars, cacheVars, bindVars, alockVars>>

\* XDL.execute with a controller of graph g; pcOk: the controller is not an
\* int, str, list or dict; hasGraph: it has the attribute graph
XExecute(g, hasGraph, pcOk, step, block) ==
  /\ xlast.op # "off"
  /\ xcalls < MaxCalls
  /\ xcalls' = xcalls + 1
  /\ xlast' = Call("execute", IF hasGraph THEN g ELSE "none", pcOk, step, block)
  /\ IF ~pcOk
     THEN /\ xerr' = "InvalidController"
          /\ UNCHANGED <<eflag, xtasks, xpending, xran, xdropped>>
     ELSE IF ~xcompiled
     THEN /\ xerr' = "BeforeCompilation"
          /\ UNCHANGED <<eflag, xtasks, xpending, xran, xdropped>>
     ELSE IF step = "none"
     THEN \* executor.execute(platform_controller) is called and the
          \* coroutine it returns is neither awaited nor scheduled
          /\ xerr' = "none"
          /\ xdropped' = xdropped + 1
          /\ UNCHANGED <<eflag, xtasks, xpending, xran>>
     ELSE IF step = "invalid"
     THEN /\ xerr' = "StepIndex"
          /\ UNCHANGED <<eflag, xtasks, xpending, xran, xdropped>>
     ELSE /\ xerr' = "none"
          /\ xtasks' = xtasks + 1
          /\ xpending' = IF block THEN xpending ELSE xpending + 1
          /\ xran' = IF block
                     THEN xran \cup {[g |-> IF hasGraph THEN g ELSE "none",
                                     h |-> xhash]}
                     ELSE xran
          /\ UNCHANGED <<eflag, xdropped>>
  /\ UNCHANGED <<eimpl, xcompiled, xhash, estray, egraph, xprep>>
  /\ UNCHANGED <<coreVars, repeatVars, dynVars, asyncVars, rerunVars, cacheVars, bindVars, alockVars>>

\* A caller runs the coroutine of AbstractXDLExecutor.execute itself, with a
\* controller of graph g
EExecute(g, hasGraph) ==
  /\ xlast.op # "off"
  /\ xcalls < MaxCalls
  /\ xcalls' = xcalls + 1
  /\ xlast' = Call("run", IF hasGraph THEN g ELSE "none", TRUE, "none", TRUE)
  /\ LET r == ExecutorRun(g, hasGraph)
     IN  /\ xerr' = r.err
         /\ eflag' = r.flag
         /\ xtasks' = xtasks + r.tasks
         /\ xran' = xran \cup r.ran
  /\ UNCHANGED <<eimpl, xcompiled, xhash, estray, egraph, xpending, xdropped,
                 xprep>>
  /\ UNCHANGED <<coreVars, repeatVars, dynVars, asyncVars, rerunVars, cacheVars, bindVars, alockVars>>

InitXdl ==
  /\ CoreIdle /\ RepeatIdle /\ DynIdle /\ AsyncIdle /\ RerunIdle /\ CacheIdle /\ BindIdle /\ AlockIdle
  /\ eimpl \in {"abstract", "platform"}
  /\ xhash \in Hashes \cup {"none"}
  /\ xcompiled = CompiledAtInit(xhash)
  /\ eflag = FALSE
  /\ estray = FALSE
  /\ egraph = "none"
  /\ xlast = Call("new", "none", TRUE, "none", FALSE)
  /\ xerr = "none"
  /\ xtasks = 0
  /\ xpending = 0
  /\ xran = {}
  /\ xdropped = 0
  /\ xprep = 0
  /\ xcalls = 0

NextXdl ==
  \/ \E impl \in {"abstract", "platform"}, h \in Hashes \cup {"none"} :
       XNew(impl, h)
  \/ \E g \in Graphs, equivOk, sane \in BOOLEAN : XPrepare(g, equivOk, sane)
  \/ \E g \in Graphs, hasGraph, pcOk, block \in BOOLEAN, step \in StepArgs :
       XExecute(g, hasGraph, pcOk, step, block)
  \/ \E g \in Graphs, hasGraph \in BOOLEAN : EExecute(g, hasGraph)

SpecXdl == InitXdl /\ [][NextXdl]_vars

\* ------------------------------------- a scheduler executed more than once
\* XDL.execute assigns a new registry to the XDL object on every call; the
\* registry of a composite step is made once, in __init__, and execute uses
\* it as it finds it
FreshRegistry(owner) == owner = "procedure"

\* chain(*task_groups.values())
SAll(reg) == UNION {SeqToSet(reg[q]) : q \in SQueues}

\* Step.get_deps of child k against registry reg
SGetDeps(k, reg) ==
  IF squeue[k] = NoQueue THEN SAll(reg)
  ELSE SeqToSet(reg[squeue[k]]) \cup SeqToSet(reg[NoQueue])

\* the scheduling loop of execution e from child k on: a task per child,
\* created with the deps the registry gives then, appended to its queue's list
RECURSIVE SSchedule(_, _, _, _)
SSchedule(e, k, reg, dp) ==
  IF k > SNumKids THEN [reg |-> reg, deps |-> dp]
  ELSE SSchedule(e, k + 1,
                 [reg EXCEPT ![squeue[k]] = Append(@, <<e, k>>)],
                 [dp EXCEPT ![<<e, k>>] = SGetDeps(k, reg)])

SDone(t) == sres[t] \notin {"none", "pending"}

\* asyncio.as_completed: the tasks that were done when the wait began come
\* first, in no fixed order; the others follow in the order they finish
SNextResults ==
  IF sold \ sseen # {} THEN sold \ sseen
  ELSE LET later == SelectSeq(scompl,
                      LAMBDA t : t \in SAll(sreg) \ (sseen \cup sold))
       IN  IF later = <<>> THEN {} ELSE {Head(later)}

\* execute of the scheduler is called: (for the procedure, after XDL.execute
\* has replaced the registry) a task is created for every child and the
\* wait on all tasks of the registry begins
SExecute ==
  /\ spc = "idle" /\ sexec < MaxExecs
  /\ LET e == sexec + 1
         r == SSchedule(e, 1, IF FreshRegistry(sowner) THEN SEmpty ELSE sreg,
                        sdeps)
         started2 == [t \in STasks |-> IF t[1] = e THEN "pending" ELSE sres[t]]
     IN  /\ sreg' = r.reg
         /\ sdeps' = r.deps
         /\ sres' = started2
         /\ sold' = {t \in SAll(r.reg) : started2[t] \notin {"none", "pending"}}
         /\ sexec' = e
  /\ spc' = "running"
  /\ sseen' = {}
  /\ UNCHANGED <<sowner, squeue, scompl, sret>>
  /\ UNCHANGED <<coreVars, repeatVars, dynVars, asyncVars, xdlVars, cacheVars, bindVars, alockVars>>

\* the task of a child runs to its end (execute_step): it awaits its deps;
\* when all returned a continue value the action runs and returns or raises;
\* a dep that returned False sends the context manager down its second yield
\* (RuntimeError); a dep that ended with an error or cancelled ends the task
\* the same way.  Child steps here hold no locks.  A task keeps running
\* after the execution that created it has returned.
SChild(t) ==
  /\ spc \in {"idle", "running"} /\ sres[t] = "pending"
  /\ \E r \in {"T", "F", "raise", "generr", "cancelled"} :
       /\ \/ r \in {"T", "F", "raise"} /\ \A d \in sdeps[t] : sres[d] = "T"
          \/ r = "generr" /\ \E d \in sdeps[t] : sres[d] = "F"
          \/ r \in {"raise", "generr", "cancelled"}
             /\ \E d \in sdeps[t] : sres[d] = r
       /\ sres' = [sres EXCEPT ![t] = r]
  /\ scompl' = Append(scompl, t)
  /\ UNCHANGED <<sowner, squeue, sreg, sexec, spc, sdeps, sold, sseen, sret>>
  /\ UNCHANGED <<coreVars, repeatVars, dynVars, asyncVars, xdlVars, cacheVars, bindVars, alockVars>>

\* the wait of the scheduler takes the next result: a continue value goes
\* on to the next task and returns True after the last; False returns False
\* (the executor cancels every task first, a composite step cancels none);
\* an error is raised on
SAwait ==
  /\ spc = "running"
  /\ \E t \in SNextResults :
       /\ SDone(t)
       /\ sseen' = sseen \cup {t}
       /\ IF sres[t] = "T" /\ sseen' # SAll(sreg)
          THEN UNCHANGED <<spc, sret, sres>>
          ELSE /\ spc' = "idle"
               /\ sret' = [sret EXCEPT ![sexec] =
                             IF sres[t] \in {"T", "F"} THEN sres[t] ELSE "raise"]
               /\ sres' = IF sres[t] = "F" /\ sowner = "procedure"
                          THEN [u \in STasks |->
                                  IF u \in SAll(sreg) /\ sres[u] = "pending"
                                  THEN "cancelled" ELSE sres[u]]
                          ELSE sres
  /\ UNCHANGED <<sowner, squeue, sreg, sexec, sdeps, sold, scompl>>
  /\ UNCHANGED <<coreVars, repeatVars, dynVars, asyncVars, xdlVars, cacheVars, bindVars, alockVars>>

InitRerun ==
  /\ CoreIdle /\ RepeatIdle /\ DynIdle /\ AsyncIdle /\ XdlIdle /\ CacheIdle /\ BindIdle /\ AlockIdle
  /\ sowner \in Owners
  /\ squeue \in [SKids -> SQueues]
  /\ sreg = SEmpty
  /\ sexec = 0
  /\ spc = "idle"
  /\ sres = [t \in STasks |-> "none"]
  /\ sdeps = [t \in STasks |-> {}]
  /\ sold = {}
  /\ scompl = <<>>
  /\ sseen = {}
  /\ sret = [e \in SExecs |-> "none"]

NextRerun ==
  \/ SExecute
  \/ \E t \in STasks : SChild(t)
  \/ SAwait

SpecRerun == InitRerun /\ [][NextRerun]_vars

\* ------------------------------------------ the child list of a composite
\* get_steps: the child list as a function of the property values; distinct
\* property states give distinct lists
GetSteps(props) == props

\* a faulty test: only a new key makes the list stale
ShouldUpdateNewKeysOnly(props, last) ==
  \E k \in PropNames : props[k] # Absent /\ last[k] = Absent

\* AbstractStep.steps, the loop over self.properties.items(): some key of
\* properties is in _last_props with another value, or is not in it
ShouldUpdate(props, last) ==
  \E k \in PropNames :
    /\ props[k] # Absent
    /\ \/ last[k] # Absent /\ last[k] # props[k]
       \/ last[k] = Absent

\* self.properties.copy()
CopyProps(props) == props

\* a property is written: step.name = value
CWrite(k, v) ==
  /\ cpc = "on" /\ creads + cwrites < MaxPropOps
  /\ cprops' = [cprops EXCEPT ![k] = v]
  /\ cwrites' = cwrites + 1
  /\ UNCHANGED <<clast, csteps, cret, ccomp, creads, cpc>>
  /\ UNCHANGED <<coreVars, repeatVars, dynVars, asyncVars, xdlVars, rerunVars, bindVars, alockVars>>

\* steps is read: when the properties have changed, _update_steps runs
\* get_steps and the properties are copied; _steps is returned
CRead ==
  /\ cpc = "on" /\ creads + cwrites < MaxPropOps
  /\ IF ShouldUpdate(cprops, clast)
     THEN /\ csteps' = GetSteps(cprops)
          /\ clast' = CopyProps(cprops)
          /\ ccomp' = ccomp + 1
     ELSE UNCHANGED <<csteps, clast, ccomp>>
  /\ cret' = csteps'
  /\ creads' = creads + 1
  /\ UNCHANGED <<cprops, cwrites, cpc>>
  /\ UNCHANGED <<coreVars, repeatVars, dynVars, asyncVars, xdlVars, rerunVars, bindVars, alockVars>>

\* after construction: the properties given to __init__ (every step has at
\* least one), no snapshot, the class's empty _steps
InitCache ==
  /\ CoreIdle /\ RepeatIdle /\ DynIdle /\ AsyncIdle /\ XdlIdle /\ RerunIdle /\ BindIdle /\ AlockIdle
  /\ cprops \in [PropNames -> PropVals \cup {Absent}] \ {NoProps}
  /\ clast = NoProps
  /\ csteps = NoSteps
  /\ cret = NoSteps
  /\ ccomp = 0
  /\ creads = 0
  /\ cwrites = 0
  /\ cpc = "on"

NextCache ==
  \/ \E k \in PropNames, v \in PropVals : CWrite(k, v)
  \/ CRead

SpecCache == InitCache /\ [][NextCache]_vars

\* ------------------------------------- the matches of one loop variable
\* iter_bindings, the end of the loop over specs: the running list is
\* filtered when it and the new matches are both non-empty, else extended
Narrow(all, matches) ==
  IF all # {} /\ matches # {} THEN all \cap matches ELSE all \cup matches

\* one round of `for spec in specs`
BSpec ==
  /\ bpc = "specs" /\ bi < Len(bspecs)
  /\ ball' = Narrow(ball, bspecs[bi + 1])
  /\ bi' = bi + 1
  /\ UNCHANGED <<bspecs, bout, bpc>>
  /\ UNCHANGED <<coreVars, repeatVars, dynVars, asyncVars, xdlVars, rerunVars, cacheVars, alockVars>>

\* after the loop: the variable is zipped with its matches, or, without any,
\* iter_bindings logs a warning and returns no binding at all; formatting
\* the warning raises IndexError when the variable has a single predicate
BBind ==
  /\ bpc = "specs" /\ bi = Len(bspecs)
  /\ bout' = ball
  /\ bpc' = IF ball = {} /\ Len(bspecs) = 1 THEN "raised" ELSE "done"
  /\ UNCHANGED <<bspecs, bi, ball>>
  /\ UNCHANGED <<coreVars, repeatVars, dynVars, asyncVars, xdlVars, rerunVars, cacheVars, alockVars>>

\* a loop variable declared with one predicate or more (parse_loop_variables)
InitBind ==
  /\ CoreIdle /\ RepeatIdle /\ DynIdle /\ AsyncIdle /\ XdlIdle /\ RerunIdle /\ CacheIdle /\ AlockIdle
  /\ bspecs \in UNION {[1..n -> SUBSET Items] : n \in 1..MaxSpecs}
  /\ bi = 0
  /\ ball = {}
  /\ bout = {}
  /\ bpc = "specs"

NextBind == BSpec \/ BBind

SpecBind == InitBind /\ [][NextBind]_vars

\* --------------------------- an Async step beside a step of the schedule
\* Step.locks, which AbstractAsyncStep and Async inherit: no lock at all
AsyncLocks == {}

\* the main-schedule step through execute_step: await_requirements acquires
\* every lock it declares, then its body begins
KMainAcquire ==
  /\ kmpc = "new" /\ kmlocks \cap klocked = {}
  /\ klocked' = klocked \cup kmlocks
  /\ kmpc' = "body"
  /\ UNCHANGED <<kdecl, kmlocks, ktpc, ki>>
  /\ UNCHANGED <<coreVars, repeatVars, dynVars, asyncVars, xdlVars, rerunVars, cacheVars, bindVars>>

\* its body ends and execute_step releases its locks
KMainDone ==
  /\ kmpc = "body"
  /\ klocked' = klocked \ kmlocks
  /\ kmpc' = "done"
  /\ UNCHANGED <<kdecl, kmlocks, ktpc, ki>>
  /\ UNCHANGED <<coreVars, repeatVars, dynVars, asyncVars, xdlVars, rerunVars, cacheVars, bindVars>>

\* the Async step through execute_step: it acquires the locks of locks(),
\* AbstractAsyncStep.execute starts the thread that runs async_execute on an
\* event loop of its own and returns, and the locks are released
KAsyncExecute ==
  /\ ktpc = "new" /\ AsyncLocks \cap klocked = {}
  /\ klocked' = (klocked \cup AsyncLocks) \ AsyncLocks
  /\ ktpc' = "thread"
  /\ ki' = 1
  /\ UNCHANGED <<kdecl, kmlocks, kmpc>>
  /\ UNCHANGED <<coreVars, repeatVars, dynVars, asyncVars, xdlVars, rerunVars, cacheVars, bindVars>>

\* async_execute, one round of the loop: step.execute of the child is called
\* as it is, without execute_step, so nothing is awaited and nothing acquired
KChildBegin ==
  /\ ktpc = "thread" /\ ki <= Len(kdecl)
  /\ ktpc' = "child"
  /\ UNCHANGED <<kdecl, kmlocks, klocked, kmpc, ki>>
  /\ UNCHANGED <<coreVars, repeatVars, dynVars, asyncVars, xdlVars, rerunVars, cacheVars, bindVars>>

\* the body of the child returns; after the last one the step is finished
KChildEnd ==
  /\ ktpc = "child"
  /\ ki' = ki + 1
  /\ ktpc' = IF ki = Len(kdecl) THEN "finished" ELSE "thread"
  /\ UNCHANGED <<kdecl, kmlocks, klocked, kmpc>>
  /\ UNCHANGED <<coreVars, repeatVars, dynVars, asyncVars, xdlVars, rerunVars, cacheVars, bindVars>>

\* an Async step of one child or more and a step of the main schedule that
\* no dependency orders with it, each declaring any of the locks
InitAlock ==
  /\ CoreIdle /\ RepeatIdle /\ DynIdle /\ AsyncIdle /\ XdlIdle /\ RerunIdle /\ CacheIdle /\ BindIdle
  /\ kdecl \in UNION {[1..n -> SUBSET Locks] : n \in 1..MaxAsyncChildren}
  /\ kmlocks \in SUBSET Locks
  /\ klocked = {}
  /\ kmpc = "new"
  /\ ktpc = "new"
  /\ ki = 0

NextAlock ==
  \/ KMainAcquire
  \/ KMainDone
  \/ KAsyncExecute
  \/ KChildBegin
  \/ KChildEnd

SpecAlock == InitAlock /\ [][NextAlock]_vars

\* --------------------------------------------------------------- properties
\* execute() of s has been called and the task of s has not finished
Running(s) == started[s] /\ pc[s] # "done"

Ancestors(s) == IF Parent(s) = NoParent THEN {} ELSE {Parent(s)}

\* the locks declared along the parent chain of s
AncestorLocks(s) == UNION {StepLocks(a) : a \in Ancestors(s)}

Related(s, t) == s \in Ancestors(t) \/ t \in Ancestors(s)

Siblings(s, t) == s # t /\ Level(s) = Level(t)

\* C1: two steps, neither an ancestor of the other, whose declared lock sets
\* share a lock name never have their bodies executing at the same time.
C1_MutualExclusion ==
  \A s, t \in Steps :
     (s # t /\ ~Related(s, t) /\ StepLocks(s) \cap StepLocks(t) # {})
       => ~(Running(s) /\ Running(t))

\* C2: a step one of whose dependencies returned False acquires no lock, does
\* not call execute, leaves no tracer entry, and its execute_step returns False.
C2_DependencyStop ==
  \A s \in Steps :
     stopPath[s] =>
       /\ hist.everAcq[s] = {}
       /\ ~started[s]
       /\ \A i \in DOMAIN tracer : tracer[i] # s
       /\ pc[s] = "done" => res[s] = "F"

\* C3: once the task of a step has finished, none of the locks acquired for it
\* is still locked on its behalf (a generator that is still to be finalised is
\* left aside).
C3_LockRelease ==
  \A s \in Steps : (pc[s] = "done" /\ ~genOpen[s]) => held[s] = {}

\* C4: when a scheduler (executor, composite step, Repeat) returns stop because
\* one of its tasks returned False, none of its tasks whose body had not
\* started by then ever starts its body.
C4_CancellationPropagation ==
  \A p \in {Exec, Comp} : \A t \in hist.pendingAtStop[p] : ~started[t]

\* C5: for siblings A, B with the same queue tag and A declared before B, the
\* body of B does not start before the task of A has completed.
C5_QueueOrdering ==
  \A B \in Steps : started[B] =>
     \A A \in Steps :
        (A < B /\ queue[A] = queue[B] /\ Siblings(A, B)) => pc[A] = "done"

\* a queued step started its body after an earlier step of its queue returned True
C5_Witness ==
  \E B \in Steps : started[B] /\ queue[B] # NoQueue /\
     \E A \in Steps :
        A < B /\ queue[A] = queue[B] /\ res[A] = "T" /\ Siblings(A, B)

\* C6: an unqueued step starts its body only after every sibling scheduled
\* before it has completed, and no sibling scheduled after it starts its body
\* before the unqueued step has completed.
C6_Barrier ==
  \A U \in Steps : queue[U] = NoQueue =>
     \A X \in Steps :
        /\ (started[U] /\ X < U /\ Siblings(U, X)) => pc[X] = "done"
        /\ (started[X] /\ U < X /\ Siblings(U, X)) => pc[U] = "done"

\* a queued step, an unqueued step and a queued step, declared in this order,
\* of which the last has started its body
C6_Witness ==
  \E B \in Steps : started[B] /\ queue[B] # NoQueue /\
     \E U \in Steps : U < B /\ started[U] /\ queue[U] = NoQueue /\
        \E A \in Steps :
           A < U /\ queue[A] # NoQueue /\ Siblings(A, U) /\ Siblings(U, B)

\* C7: while the body of a step runs, every lock the step declares is held by
\* the step or by one of its ancestors.
C7_LockCoverage ==
  \A s \in Steps :
     Running(s) =>
       \A l \in StepLocks(s) : \E a \in {s} \cup Ancestors(s) : l \in held[a]

\* C8: a step never acquires, waits for or releases a lock that an ancestor
\* declares, and while its body runs it holds exactly its requested locks less
\* the locks declared along its parent chain.
C8_AncestorInheritance ==
  \A s \in Steps :
     /\ hist.everAcq[s] \cap AncestorLocks(s) = {}
     /\ hist.waitedFor[s] \cap AncestorLocks(s) = {}
     /\ hist.everRel[s] \cap AncestorLocks(s) = {}
     /\ Running(s) => held[s] = StepLocks(s) \ AncestorLocks(s)

\* the body of a child runs under a lock its parent declares and holds, and
\* the child holds the rest of its locks itself
C8_Witness ==
  \E s \in Steps :
     /\ Parent(s) # NoParent /\ Running(s)
     /\ StepLocks(s) \cap AncestorLocks(s) # {}
     /\ StepLocks(s) \cap AncestorLocks(s) \subseteq held[Parent(s)]
     /\ held[s] = StepLocks(s) \ AncestorLocks(s)

\* C9: no step holds a non-empty proper subset of the locks it requested
\* while it waits for one of the remaining ones.
C9_AllOrNothing ==
  \A s \in Steps :
     ~ /\ pc[s] = "acq"
       /\ held[s] # {}
       /\ \E l \in Need(s) \ held[s] : s \in SeqToSet(lockWaiters[l])

\* s waits for a lock that is held on behalf of t
WaitsFor(s, t) ==
  /\ pc[s] \in {"poll", "acq"}
  /\ \E l \in Need(s) \ held[s] : l \in held[t]

\* no two steps wait for each other (a longer cycle needs a third lock)
NoCircularWait ==
  \A s, t \in Steps : ~(s # t /\ WaitsFor(s, t) /\ WaitsFor(t, s))

\* s waits for a lock that nothing will ever release: it is held on behalf of
\* a finished task whose requirement generator is not open any more
Starved(s) ==
  /\ pc[s] \in {"poll", "acq"}
  /\ ~stopPath[s] /\ ~cancelReq[s]
  /\ \E l \in Need(s) \ held[s] :
        \E t \in Steps : pc[t] = "done" /\ ~genOpen[t] /\ l \in held[t]

RECURSIVE DepsWithin(_, _)
DepsWithin(s, n) ==
  IF n = 0 THEN deps[s]
  ELSE deps[s] \cup UNION {DepsWithin(t, n - 1) : t \in deps[s]}

DepsClosure(s) == DepsWithin(s, NumSteps)

\* no unqueued sibling is declared between s and t
NoBarrierBetween(s, t) ==
  \A u \in Steps :
     (Siblings(u, s) /\ queue[u] = NoQueue) => ~((s < u /\ u < t) \/ (t < u /\ u < s))

\* C11: the dependency set of a scheduled step with explicit queue tag q is
\* exactly its earlier siblings tagged q and its earlier unqueued siblings,
\* never a task of another explicit queue; two siblings with different
\* explicit tags, disjoint locks and no unqueued step between them never wait
\* for each other, neither through dependencies nor for a lock.
C11_InterQueueIndependence ==
  \A s \in Steps : (pc[s] # "unborn" /\ queue[s] # NoQueue) =>
     /\ deps[s] = {t \in Steps : t < s /\ queue[t] \in {queue[s], NoQueue}
                                  /\ Siblings(s, t)}
     /\ \A t \in Steps :
          (pc[t] # "unborn" /\ queue[t] \notin {queue[s], NoQueue}
             /\ Siblings(s, t) /\ StepLocks(s) \cap StepLocks(t) = {}
             /\ NoBarrierBetween(s, t))
            => /\ t \notin DepsClosure(s) /\ s \notin DepsClosure(t)
               /\ ~WaitsFor(s, t) /\ ~WaitsFor(t, s)

\* two siblings with different explicit queue tags and disjoint locks, the
\* later of which has earlier siblings it depends on, run their bodies at the
\* same time
C11_Witness ==
  \E s \in Steps : Running(s) /\ queue[s] # NoQueue /\ kind[s] = "leaf" /\
     \E t \in Steps :
        /\ Running(t) /\ t < s /\ kind[t] = "leaf"
        /\ queue[t] \notin {queue[s], NoQueue}
        /\ pc[s] = "body" /\ pc[t] = "body"
        /\ Siblings(s, t) /\ StepLocks(s) \cap StepLocks(t) = {}
        /\ NoBarrierBetween(s, t)
        /\ deps[s] # {}

\* every monitor child of batch b returned DONE in batch b
AllMonitorsDone(b) ==
  \A i \in Children : rkind[i] = "monitor" => rres[b][i] = "DONE"

\* C12: a Repeat with monitor children leaves its batch loop on the monitors'
\* account only after a batch in which every monitor child returned DONE, and
\* it schedules another batch only after a batch in which some monitor child
\* did not return DONE.
C12_MonitorTermination ==
  MonitorStepCount > 0 =>
    /\ rexit = "monitor" => AllMonitorsDone(rbatch)
    /\ \A b \in Batches :
         (b > 1 /\ rres[b][1] # "unborn") => ~AllMonitorsDone(b - 1)

HasMonitorChild == \E i \in Children : rkind[i] = "monitor"

\* the configurations the mode-exclusivity rule names
MixedModes ==
  \/ rcfg.hasRepeats /\ rcfg.hasLoopVars
  \/ HasMonitorChild /\ rcfg.hasRepeats
  \/ HasMonitorChild /\ rcfg.hasLoopVars

\* ... with a non-zero count where a count is involved, and with at least one
\* batch to expand to where a monitor is involved
MixedModesInEffect ==
  \/ rcfg.hasRepeats /\ rcfg.repeats # 0 /\ rcfg.hasLoopVars
  \/ /\ HasMonitorChild /\ HasBatch(rcfg, 1)
     /\ (rcfg.hasRepeats /\ rcfg.repeats # 0) \/ rcfg.hasLoopVars

NoChildScheduled == \A t \in RTasks : RRes(t) = "unborn"

DEvents(e) == {p \in DOMAIN dlog : dlog[p].e = e}

\* the steps of phase ph that execute has run
DStepsRun(ph) == {p \in DEvents("step") : dlog[p].ph = ph}

\* the event before position p is the last step of a block of phase ph
DBlockEndsBefore(p, ph) ==
  /\ p > 1 /\ dlog[p - 1].e = "step"
  /\ dlog[p - 1].ph = ph /\ dlog[p - 1].i = dlog[p - 1].n

\* the step at position p runs next in its block: after its predecessor in
\* the list, or first after the call that returned the block
DInListOrder(p) ==
  IF dlog[p].i > 1
  THEN /\ dlog[p - 1].e = "step" /\ dlog[p - 1].ph = dlog[p].ph
       /\ dlog[p - 1].i = dlog[p].i - 1 /\ dlog[p - 1].r # "raise"
  ELSE CASE dlog[p].ph = "start" -> dlog[p - 1].e = "execute"
         [] dlog[p].ph = "continue" ->
              p > 1 /\ dlog[p - 1].e = "on_continue" /\ dlog[p - 1].r = "block"
         [] dlog[p].ph = "finish" -> p > 1 /\ dlog[p - 1].e = "on_finish"
         [] OTHER -> FALSE

\* C14: outside simulation execute starts with the start block; the steps of a block run one at a time in list
\* order; on_continue is called only when the whole start block has run and
\* the block returned before has run; on_finish is called at most once and
\* only right after on_continue returned an empty list; kill() is called only
\* after the finish block; and when execute returns True the start block and
\* the finish block have run, on_finish was called once and kill() was called
\* on every asynchronous step executed in a block.
C14_Lifecycle ==
  ~dsim =>
    /\ \A p \in DEvents("execute") :
         /\ p = 1 /\ dlog[p].ph = "start"
         /\ dlog[p].n = Len(dcfg.start) \/ (dresumed /\ dlog[p].n = 0)
    /\ \A p \in DEvents("step") : DInListOrder(p)
    /\ \A p \in DEvents("on_continue") :
         /\ Cardinality(DStepsRun("start")) = dlog[1].n
         /\ \/ dlog[p - 1].e = "execute" /\ dlog[p - 1].n = 0
            \/ DBlockEndsBefore(p, "start") \/ DBlockEndsBefore(p, "continue")
         /\ (dlog[p].r = "empty") = (dlog[p].n = 0)
    /\ \A p \in DEvents("on_finish") :
         p > 1 /\ dlog[p - 1].e = "on_continue" /\ dlog[p - 1].r = "empty"
    /\ Cardinality(DEvents("on_finish")) <= 1
    /\ \A p \in DEvents("kill") :
         \/ DBlockEndsBefore(p, "finish")
         \/ dlog[p - 1].e = "on_finish" /\ dlog[p - 1].n = 0
    /\ dret = "T" =>
         /\ Cardinality(DEvents("on_finish")) = 1
         /\ Cardinality(DStepsRun("finish")) = Len(dcfg.fin)
         /\ dlog[Len(dlog)].e = "kill"
         /\ \A p \in DEvents("step") :
              dlog[p].k = "async" => <<druns, p>> \in dkilled

\* execute has returned True after a start block, two continue blocks with an
\* asynchronous step among them, and a finish block
C14_Witness ==
  /\ ~dsim /\ dret = "T" /\ dncont = MaxContinue
  /\ DStepsRun("start") # {} /\ DStepsRun("finish") # {}
  /\ \E p \in DStepsRun("continue") : dlog[p].k = "async" /\ <<druns, p>> \in dkilled

\* C15: once a step of the start, a continue or the finish block has returned
\* False, execute runs no further block step and calls neither on_continue
\* nor on_finish, and when it has ended it has called kill() on the
\* asynchronous steps it executed and has returned False.
C15_Stop ==
  \A p \in DEvents("step") :
     (~dsim /\ dlog[p].r = "F") =>
       /\ \A q \in DOMAIN dlog :
            q > p => dlog[q].e \notin {"step", "on_continue", "on_finish"}
       /\ dpc = "done" =>
            /\ dret = "F"
            /\ \A q \in DEvents("step") :
                 dlog[q].k = "async" => <<druns, q>> \in dkilled

\* C16: in simulation execute runs the steps get_simulation_steps returns,
\* in list order and once, calls neither on_continue nor on_finish, returns
\* True when the last of them has run, and always comes to an end.
C16_SimulationSafe ==
  dsim =>
    /\ DEvents("on_continue") = {} /\ DEvents("on_finish") = {}
    /\ \A p \in DEvents("execute") :
         p = 1 /\ dlog[p].ph = "sim" /\ dlog[p].n = Len(dcfg.sim)
    /\ \A p \in DEvents("step") :
         /\ dlog[p].ph = "sim" /\ dlog[p].i = p - 1
         /\ dlog[p].k = dcfg.sim[p - 1]
    /\ dret = "T" => Len(dlog) = Len(dcfg.sim) + 1
    /\ (dpc = "done" /\ dlog # <<>>) =>
         dret = "T" \/ dlog[Len(dlog)].r = "raise"

C16_Simulation ==
  /\ []C16_SimulationSafe
  /\ (dsim /\ dpc = "run") ~> (dpc = "done")

\* in simulation execute has returned True after two simulation steps
C16_Witness ==
  /\ dsim /\ dret = "T" /\ Len(dcfg.sim) = MaxBlockLen
  /\ Cardinality(DEvents("step")) = MaxBlockLen

\* C17: once resume() has been called the step is in its lifecycle again, or
\* has been through it: on_continue has been invoked after the call.
C17_ResumeAfterPause ==
  dresumed => (dpc = "run" \/ (dlog # <<>> /\ dlog[1].n = 0 /\ dncont > 0))

\* Await.execute returns in this step
AwaitReturns == wpc' = "done" /\ (wpc = "wait" \/ wruns' # wruns)

\* C18: when an Await step with pid p returns, every Async step with pid p of
\* the procedure's list that was executed before the Await step, and not
\* again since, has ended its body (no child of it is running or still to
\* run), and its flag finished is false.
C18_Rendezvous ==
  [][AwaitReturns =>
       \A a \in Asyncs :
         (wxdl /\ atop[a] /\ apid[a] = wpid' /\ aruns[a] > 0 /\ a \notin wsince')
           => (apc'[a] # "child" /\ ~afinished'[a])]_vars

\* no Async step of the procedure's list of steps has pid p
NoAsyncWithPid(p) == ~\E a \in Asyncs : atop[a] /\ apid[a] = p

\* C19: an Await step whose pid is the pid of no Async step in the
\* procedure's list of steps returns in the step that calls it, without a
\* sleep, and leaves the flag finished of every Async step as it was.
C19_UnknownPid ==
  [][\A p \in WPids :
       (NoAsyncWithPid(p) /\ wruns' = wruns + 1 /\ wpid' = p)
         => (wpc' = "done" /\ afinished' = afinished)]_vars

\* an Await step with a pid no Async step has returned while an Async step
\* of the list was executing a child
C19_Witness ==
  /\ wpc = "done" /\ wpid = "p3" /\ wxdl
  /\ \E a \in Asyncs : atop[a] /\ apc[a] = "child" /\ ~afinished[a]
  /\ \E a \in Asyncs : atop[a] /\ afinished[a]

\* the body of a has ended in this step in one of the ways the loop and its
\* end provide: every child completed, a child said stop, kill was seen
BodyEnds(a) ==
  /\ apc[a] = "child"
  /\ apc'[a] # "child"
  /\ aend'[a] # "raised"

\* finished is false up to the end of the first body
C20_FlagUntilEnd ==
  \A a \in Asyncs :
    (aruns[a] = 0 \/ (aruns[a] = 1 /\ apc[a] = "child")) => ~afinished[a]

\* on_finish is called at most once in an execution, after the last child
\* completed, and in no execution whose body read _should_end as true
C20_Callback ==
  \A a \in Asyncs :
    /\ acalls[a] <= 1
    /\ acalls[a] = 1 => (ai[a] = alen[a] /\ aend[a] = "completed" /\ ~aseen[a])
    /\ aend[a] \in {"killed", "stopped", "raised"} => acalls[a] = 0

\* C20: finished is false from construction to the end of the body and is
\* true when the body ends because every child completed, a child said stop
\* or kill was called; on_finish is called at most once in an execution,
\* only after every child completed and never after the body was ended by
\* kill.
C20_FlagAndCallback ==
  /\ [](C20_FlagUntilEnd /\ C20_Callback)
  /\ [][\A a \in Asyncs : BodyEnds(a) => afinished'[a]]_vars

\* one Async step completed and called on_finish, another was ended by kill
\* before its last child, and both have finished set
C20_Witness ==
  \E a, b \in Asyncs :
    /\ acalls[a] = 1 /\ aend[a] = "completed" /\ afinished[a]
    /\ aend[b] = "killed" /\ ai[b] < alen[b] /\ afinished[b] /\ acalls[b] = 0

\* a child of a begins executing in this step
ChildBegins(a) ==
  /\ apc'[a] = "child"
  /\ apc[a] # "child" \/ ai'[a] # ai[a]

\* C21 as stated: once kill() has been called on an Async step no child of it
\* begins executing, and the call of kill() itself leaves the child in
\* progress as it is.
C21_AsStated ==
  [][\A a \in Asyncs :
       /\ ashould_end[a] => ~ChildBegins(a)
       /\ (ashould_end'[a] /\ ~ashould_end[a]) => (apc'[a] = apc[a] /\ ai'[a] = ai[a])]_vars

\* C21: while a child of an Async step is in progress and kill() has been
\* called, the body does not go on to another child: the child ends and the
\* body with it; the call of kill() itself leaves the child in progress as
\* it is.
C21_KillInProgress ==
  [][\A a \in Asyncs :
       /\ (ashould_end[a] /\ apc[a] = "child") => ~ChildBegins(a)
       /\ (ashould_end'[a] /\ ~ashould_end[a]) => (apc'[a] = apc[a] /\ ai'[a] = ai[a])]_vars

\* a body was ended by kill() after its first child, with a second child
\* that never began
C21_Witness ==
  \E a \in Asyncs :
    /\ aseen[a] /\ aend[a] = "killed" /\ apc[a] = "idle"
    /\ ai[a] = 1 /\ alen[a] = 2 /\ aruns[a] = 1

\* a call of op is made in this step
Called(op) == xcalls' # xcalls /\ xlast'.op = op

\* this step starts an execution: XDL.execute with a proper controller, or
\* the executor's execute run by a caller
ExecuteCalled == (Called("execute") /\ xlast'.ok) \/ Called("run")

\* this step creates no step task and runs no leaf action
NothingRuns == xtasks' = xtasks /\ xpending' = xpending /\ xran' = xran

\* C22: an execution of a compiled plan with a controller whose graph has
\* another hash than the one the plan was compiled against raises the
\* graph-mismatch error, creates no step task and runs no leaf action, and
\* leaves the stored hash as it is (no recompilation).
C22_GraphMismatch ==
  [][(ExecuteCalled /\ xcompiled /\ xlast'.g \in Graphs
        /\ GraphHash(xlast'.g) # xhash)
       => (xerr' = "DifferentGraph" /\ NothingRuns /\ xhash' = xhash
             /\ xprep' = xprep)]_vars

\* C23: an execution of a procedure that is not compiled raises the
\* execution-before-compilation error, creates no step task and runs no leaf
\* action.
C23_ExecuteBeforeCompile ==
  [][(ExecuteCalled /\ ~xcompiled)
       => (xerr' = "BeforeCompilation" /\ NothingRuns)]_vars

\* execute was called, for the whole procedure and for one step, on an
\* object that was prepared with the abstract executor and not compiled by
\* it; the error was raised and nothing ran
C23_Witness ==
  /\ xlast.op = "execute" /\ xlast.ok /\ xlast.step = "valid"
  /\ xerr = "BeforeCompilation"
  /\ ~xcompiled /\ xprep > 0
  /\ xtasks = 0 /\ xran = {}

\* C24: an XDL object with a graph hash has compiled set, and
\* prepare_for_execution on an object with compiled set raises the
\* double-compilation error and leaves compiled, the graph hash and the
\* steps as they are.
C24_DoubleCompilation ==
  /\ [](xhash # "none" => xcompiled)
  /\ [][(Called("prepare") /\ xcompiled)
          => (xerr' = "DoubleCompilation" /\ xcompiled' /\ xhash' = xhash
                /\ xprep' = xprep /\ egraph' = egraph)]_vars

\* prepare_for_execution raised the double-compilation error on an object
\* compiled in this session, with another graph than the first
C24_Witness ==
  /\ xlast.op = "prepare" /\ xerr = "DoubleCompilation"
  /\ xprep = 1 /\ xcompiled
  /\ egraph # xlast.g /\ xhash = GraphHash(egraph) /\ xhash # GraphHash(xlast.g)

\* C25: when prepare_for_execution returns without an error, the executor's
\* flag _prepared_for_execution is set, compiled is set and the graph hash
\* is the hash of the graph given.
C25_CompileEnablesExecute ==
  [][(Called("prepare") /\ xerr' = "none")
       => (eflag' /\ xcompiled' /\ xhash' = GraphHash(xlast'.g))]_vars

\* C26: XDL.execute on a compiled procedure, with no step index, block set
\* and a controller of the graph it was compiled against, creates a task for
\* every step of the procedure and leaves none of them pending.
C26_TopLevelExecution ==
  [][(Called("execute") /\ xlast'.ok /\ xcompiled /\ xlast'.step = "none"
        /\ xlast'.block /\ xlast'.g \in Graphs /\ GraphHash(xlast'.g) = xhash)
       => (xtasks' = xtasks + XNumSteps /\ xpending' = 0)]_vars

\* C27: once a scheduler (executor or composite step) has ended with the
\* error one of its tasks raised, every other task of it has finished or has
\* been cancelled.
C27_SiblingError ==
  \A p \in {Exec, Comp} :
    (pc[p] = "done" /\ res[p] = "raise" /\ (p = Exec \/ started[p]))
      => \A t \in ChildrenOf(p) : pc[t] = "done" \/ cancelReq[t]

\* the action of leaf s ran and raised
LeafFailed(s) == kind[s] = "leaf" /\ started[s] /\ pc[s] = "done" /\ res[s] = "raise"

\* C28: when the action of a leaf has raised, the task of the leaf ends with
\* that error (not with a stop or continue value), every lock acquired for
\* the leaf has been released by the time the task is done, the tracer has
\* no entry for the leaf, and the finished task never runs again.
C28_LeafFailure ==
  /\ [](\A s \in Steps :
          LeafFailed(s) =>
            /\ held[s] = {}
            /\ hist.everAcq[s] \subseteq hist.everRel[s]
            /\ s \notin SeqToSet(tracer))
  /\ [][\A s \in Steps : LeafFailed(s) => (pc'[s] = "done" /\ res'[s] = "raise")]_vars

\* the action of a leaf raised after the leaf had waited for a lock and
\* acquired it; the lock is free again
C28_Witness ==
  \E s \in Steps :
    /\ LeafFailed(s)
    /\ hist.everAcq[s] # {} /\ hist.waitedFor[s] # {}
    /\ \A l \in hist.everAcq[s] : ~locked[l]

\* the body of s ran and returned a value
BodyReturned(s) == started[s] /\ pc[s] = "done" /\ res[s] \in {"T", "F"}

\* the position of s in the tracer list (0: no entry)
TracerPos(s) ==
  IF s \in SeqToSet(tracer)
  THEN CHOOSE i \in DOMAIN tracer : tracer[i] = s
  ELSE 0

\* C29: the tracer holds exactly one entry for every step whose body has
\* returned and none for any other step; an entry is appended in the step
\* in which that body completes, so the list is in completion order; and
\* the entry of an unqueued step comes after the entries of all the steps
\* declared before it under the same parent, so steps that are all unqueued
\* are listed in declaration order.
C29_TracerOrder ==
  /\ [](/\ \A i, j \in DOMAIN tracer : tracer[i] = tracer[j] => i = j
        /\ \A s \in Steps : s \in SeqToSet(tracer) <=> BodyReturned(s)
        /\ \A a, b \in Steps :
             (/\ Parent(a) = Parent(b) /\ a < b /\ queue[b] = NoQueue
              /\ TracerPos(b) # 0)
               => (TracerPos(a) # 0 /\ TracerPos(a) < TracerPos(b)))
  /\ [][tracer' # tracer =>
          \E s \in Steps : /\ tracer' = Append(tracer, s)
                           /\ pc[s] # "done" /\ pc'[s] = "done"]_vars

\* the children of the composite are unqueued lock-free leaves, all have
\* run, and the tracer lists them in declaration order before the composite
C29_Witness ==
  /\ \A k \in Kids : queue[k] = NoQueue /\ StepLocks(k) = {} /\ BodyReturned(k)
  /\ \A a, b \in Kids : a < b => TracerPos(a) < TracerPos(b)
  /\ \A k \in Kids : TracerPos(k) < TracerPos(Comp)
  /\ Cardinality(Kids) >= 2

\* C30: an execution of the procedure or of a composite step finds in the
\* registry only tasks it scheduled itself, the deps of a task are tasks of
\* the same execution, and an execution returns a stop value only when one
\* of its own tasks returned one.
C30_FreshRegistry ==
  /\ spc = "running" => \A t \in SAll(sreg) : t[1] = sexec
  /\ \A t \in STasks : \A d \in sdeps[t] : d[1] = t[1]
  /\ \A e \in SExecs :
       sret[e] = "F" => \E k \in SKids : sres[<<e, k>>] = "F"

MatchIntersection == {m \in Items : \A k \in DOMAIN bspecs : m \in bspecs[k]}

\* C32: the values a loop variable is iterated over are the intersection of
\* the matches of its predicates; a predicate without matches, or an empty
\* running intersection, leaves the variable without matches.
C32_MatchSet == bpc = "done" => bout = MatchIntersection

\* the Repeat has loop variables and they match nothing
EmptyMatchSet == rcfg.hasLoopVars /\ rcfg.matches = 0

\* C33: for a Repeat whose loop variables match nothing no task of a child
\* is ever created, no child body runs, expanding its steps raises no error,
\* and execute ends by returning True.
C33_EmptyMatchSet ==
  EmptyMatchSet =>
    /\ rres = NoTasks
    /\ rexit # "indexerror"
    /\ (rbatch >= 1 /\ rpc = "done") => rexit = "end"

\* the tasks whose step had its body executed
RExecuted == {t \in RTasks : RRes(t) \in {"T", "F", "DONE"}}

\* C34: when execute of a Repeat with a fixed count N (and no loop
\* variables) has returned True, the bodies executed are those of the k
\* children in each of the batches 1..N, and no two of them belong to the
\* same step instance.
C34_FixedCount ==
  (rcfg.hasRepeats /\ ~rcfg.hasLoopVars /\ rpc = "done" /\ rexit = "end") =>
    /\ RExecuted = {t \in RTasks : t[1] <= rcfg.repeats}
    /\ Cardinality(RExecuted) = rcfg.repeats * NumChildren
    /\ \A t, u \in RExecuted : t # u => ObjId(t[1], t[2]) # ObjId(u[1], u[2])
\* C35: while the action of a child of an Async step runs, every lock the
\* child declares is locked for it, by itself or by the Async step, and the
\* body of a main-schedule step that declares one of them is not running
C35_AsyncChildLocks ==
  ktpc = "child" =>
    /\ kdecl[ki] \subseteq AsyncLocks
    /\ ~(kmpc = "body" /\ kdecl[ki] \cap kmlocks # {})

\* step s is inside acquire_locks or holds a lock acquired for itself
Acquiring(s) ==
  \/ held[s] # {}
  \/ pc[s] \in {"poll", "acq"}
  \/ \E l \in Locks : \E i \in 1..Len(lockWaiters[l]) : lockWaiters[l][i] = s

C37_RepeatTermination == <>(rpc = "done")

\* C38: the tracer entry of a composite step comes after the entries of its
\* children, also when the composite returned stop early: no child's entry
\* lies behind the entry of its parent
C38_TracerNesting ==
  \A k \in Kids :
    (TracerPos(k) # 0 /\ TracerPos(Parent(k)) # 0) => TracerPos(k) < TracerPos(Parent(k))

\* Await.execute is in its loop for Async step a, whose one execution has
\* ended without an error
AwaitsEnded(a) ==
  /\ wpc = "wait" /\ Head(wtodo) = a
  /\ aruns[a] = 1 /\ apc[a] = "idle" /\ aend[a] \in {"completed", "stopped", "killed"}

\* C39: an Await that waits for an Async step that is executed once and
\* whose body ends leaves its loop for that step in the end, however many
\* Await steps name the pid and wherever they stand in the procedure
C39_AwaitLiveness ==
  \A a \in Asyncs : AwaitsEnded(a) ~> ~(wpc = "wait" /\ Head(wtodo) = a)

\* the DONE results read so far that monitor leaves of batch b returned
MonitorDones(b) ==
  {t \in rseen : t[1] = b /\ rkind[t[2]] = "monitor" /\ RRes(t) = "DONE"}

\* C40: while a batch with monitor leaves is awaited, and when the Repeat
\* ends on the monitors' account, monitor_done_count is the number of DONE
\* results of the monitor leaves of that batch, never more than there are
\* monitor leaves; no other child and no task of an earlier batch adds to it
C40_DoneAccounting ==
  (rpc = "await" \/ rexit = "monitor") =>
    /\ rcount <= MonitorStepCount
    /\ rcount = Cardinality(MonitorDones(rbatch))

====
